---- MODULE Spec2Model ----
(***************************************************************************)
(* EVA-Mind: session relay and care-orchestration engine.                  *)
(*                                                                         *)
(* The module holds one state space and several specifications over it,    *)
(* one per subsystem:                                                      *)
(*   SpecSched  - scheduler (checkAndTriggerCalls, checkMissedCalls), the  *)
(*                confirm_medication tool and the register-time schedule   *)
(*                update, over the agendamentos table;                     *)
(*   SpecAlert  - AlertFamilyWithSeverity, the tool executor and the       *)
(*                escalation pass, over the alertas table.                 *)
(* Each specification leaves the other subsystems' variables unchanged.    *)
(***************************************************************************)
EXTENDS Integers, Sequences, FiniteSets, TLC

\* ------------------------------------------------------------------ bounds
NSched == 1
MaxFamilyAlerts == 1
MaxAttempts == 2
MaxInvites == 2
NClients == 2
MaxLinks == 1
SendChCap == 1
AudioChanCap == 1
MaxBuffered == 3200
MaxOutstanding == 2
MaxSegments == 3
MaxPushes == 4
NWorkers == 2

\* --------------------------------------------------------- program constants
FireLimit == 10

Schedules == 1..NSched
\* transcript segments of one session, numbered in the order the response
\* reader receives them
Segments == 1..MaxSegments
Workers == 1..NWorkers
Clients == 1..NClients
\* the client followed by the one-connection specifications
Solo == {1}
NoClient == 0

\* the session IDs start_call can carry or generateSessionID can return:
\* one per second of the clock, so two calls can get the same
SessionIDs == 1..NClients

\* the national identifiers of the Subjects the store knows
CPFs == {"111", "222"}

\* the coexisting servers: src/main.go, src/cmd/server/websocket_pcm.go, the
\* server with the idle watchdog (src/unnamed/part_013) and
\* src/internal/signaling/websocket.go
Forks == {"main", "pcm", "watchdog", "signaling"}

\* agendamentos.status values written or read by the code
StatusPending == "agendado"
StatusInProgress == "em_andamento"
StatusCompleted == "concluido"
StatusUnanswered == "nao_atendido"
StatusNoToken == "falha_sem_token"
StatusInvalidToken == "falha_token_invalido"
StatusSendFailed == "falha_envio"
StatusInCall == "em_chamada"
StatusWaiting == "aguardando_atendimento"

\* severities of the alert_family tool schema
Severities == {"critica", "alta", "media", "baixa"}

\* A transcript segment as saveTranscription formats it,
\* "[15:04:05] Idoso: " and an utterance of six characters.
SegmentChars == 24

\* analyzeAndSaveConversation skips transcripts of at most 50 characters.
MinTranscriptChars == 50

\* Position of data_hora_agendada relative to NOW():
\*   future  : scheduled-at > now
\*   due     : now - 45 s <= scheduled-at <= now
\*   overdue : now - 10 min <= scheduled-at < now - 45 s
\*   stale   : scheduled-at < now - 10 min
Ages == <<"future", "due", "overdue", "stale">>

\* Active caregivers of the Subject, ordered by prioridade; tok says whether
\* device_token is non-empty.  At most one caregiver has prioridade 1.
CaregiverConfigs ==
  { << >>,
    << [prioridade |-> 1, tok |-> TRUE] >>,
    << [prioridade |-> 1, tok |-> FALSE] >>,
    << [prioridade |-> 2, tok |-> TRUE] >>,
    << [prioridade |-> 1, tok |-> TRUE], [prioridade |-> 2, tok |-> TRUE] >>,
    << [prioridade |-> 1, tok |-> FALSE], [prioridade |-> 2, tok |-> TRUE] >> }

VARIABLES
  agendamentos,        \* [Schedules -> [status, age, ultima_tentativa]];
                       \* ultima_tentativa is "null", "now" (less than 45 s
                       \* before NOW()) or "old"
  device_token,        \* idosos.device_token of the Subject: "", "tok" (a
                       \* token of at least 10 bytes) or "short" (a
                       \* non-empty token of fewer than 10 bytes)
  device_token_valido, \* idosos.device_token_valido
  cuidadores,          \* active caregivers of the Subject, by prioridade
  alertas,             \* sequence of alert rows, id = index;
                       \* tempo_escalamento is "null", "past" (<= NOW()),
                       \* "in5m" or "in10m" (that far after NOW())
  historico,           \* historico_ligacoes rows, grouped by agendamento_id
  timeline,            \* timeline rows, grouped by the schedule that caused them
  pushes,              \* push attempts made by the scheduler, counted per
                       \* schedule: incoming_call, calls of
                       \* SendCallNotification; dispatched, those that
                       \* returned nil; missed_call_alert
  schedPc,             \* position of the scheduler goroutine; "panic" once
                       \* it has died of a runtime panic
  rows,                \* result set the scheduler is iterating over
  sweepOutcome,        \* per schedule, what the store and the push provider
                       \* answered to each missed-call pass
  saves,               \* per transcript segment, the position of its
                       \* saveTranscription goroutine: "none" (segment not
                       \* received yet), "update", "insert" or "done"
  analysis,            \* the analyzeAndSaveConversation goroutine of the
                       \* session: "none" (session live), "pending" (started
                       \* by cleanupSession) or "done"
  notifications,       \* the alert pushes handed to the push provider, in
                       \* order: the alertas row each was sent for, the
                       \* alert_id of its payload and the provider's answer
  tierAttempts,        \* the SMS, e-mail and voice-call attempts made for
                       \* alerts, in order: the alertas row and the tier
  wmStopChan,          \* WorkerManager.stopChan: "open" or "closed"
  wg,                  \* the counter of WorkerManager.wg
  workerPc,            \* per registered worker, its runWorker goroutine:
                       \* "none" (not launched), "first" (before the
                       \* immediate execution), "run" (inside w.Run),
                       \* "select" (at the select of the loop) or "exited"
  startPc,             \* WorkerManager.Start: "none", "loop" or "done"
  stopPc,              \* WorkerManager.Stop: "none", "wait" (stopChan
                       \* closed, in wg.Wait) or "returned"
  toolCall,            \* the last function call handled by executeTool
  fork,                \* which of the coexisting servers is running
  sessions,            \* the session map of the signaling server: session
                       \* ID -> the connection whose session is stored under
                       \* it, NoClient when absent
  currentSession,      \* per connection, the ID of currentSession, 0 for nil
  teardowns,           \* per connection, how often cleanupSession has torn
                       \* its session down (cancel, Close, analysis started)
  missed,              \* calls of cleanupSession that found no session
  toDelete,            \* the IDs cleanupDeadSessions has collected and not
                       \* yet cleaned up
  clients,             \* the registry: CPF -> client, NoClient when absent
  conn,                \* client.Conn: "none", "open" or "closed"
  transportCloses,     \* calls of client.Conn.Close so far
  CPF,                 \* client.CPF, "" until registered
  cancelled,           \* client.ctx is done
  active,              \* client.active
  GeminiClient,        \* client.GeminiClient: index into links, 0 for nil
  links,               \* per client, every gemini.Client it has opened
  reader,              \* handleClientMessages: "none", "run" or "done"
  writer,              \* handleClientSend
  watchdog,            \* monitorClientActivity
  listeners,           \* per client, listenGemini goroutines started / exited
  idle,                \* time.Since(client.lastActivity) > 5 min
  SendCh,              \* number of chunks queued in client.SendCh
  toolResponses,       \* what executeTool has written back to the provider
  \* one gemini.Client
  audioBuffer,         \* len(c.audioBuffer) in bytes
  timeSinceLastSend,   \* time.Since(c.lastSendTime) in ms
  isProcessing,        \* c.isProcessing, the in-flight flag
  audioChan,           \* sizes of the chunks queued in c.audioChan
  stopChan,            \* "open" or "closed"
  geminiConn,          \* c.conn, the transport to the provider
  sends,               \* sendAudioInternal goroutines that have not written
                       \* yet: fresh (no response read since they started)
                       \* and stale; and written: sends on the wire with no
                       \* response read since; forced: the last buffer
                       \* operation logged a forced flush
  sendOrder,           \* pending: the sendAudioInternal goroutines that have
                       \* not written yet, in the order flushBuffer started
                       \* them, each flagged TRUE once a goroutine started
                       \* after it has written to the transport; late: some
                       \* buffer has been written after a later one
  linkWorker,          \* audioWorker: "run" or "done"
  lastOffer,           \* what the last SendAudio did with its chunk: "none",
                       \* "queued" or "dropped" (the warning it logs)
  pace                 \* the clock of a paced upload: tick, ms until the
                       \* ticker of audioWorker fires; chunk, ms until the
                       \* next device chunk (-1: the device is not streaming);
                       \* flushes, flushes made so far (counted up to 2);
                       \* gap, ms between the last two flushes (counted up
                       \* to minSendInterval, -1 before the second flush)

dbVars == << agendamentos, device_token, device_token_valido, cuidadores,
             alertas, historico, timeline, pushes, schedPc, rows, sweepOutcome,
             saves, analysis, notifications, tierAttempts >>
sigVars == << sessions, currentSession, teardowns, missed, toDelete >>
relayVars == << fork, sigVars, clients, conn, transportCloses, CPF, cancelled, active, GeminiClient, links,
                reader, writer, watchdog, listeners, idle, SendCh, toolResponses >>
linkVars == << audioBuffer, timeSinceLastSend, isProcessing, audioChan, stopChan,
              geminiConn, sends, sendOrder, linkWorker, lastOffer, pace >>
workerVars == << wmStopChan, wg, workerPc, startPc, stopPc >>
vars == << dbVars, toolCall, relayVars, linkVars, workerVars >>

\* ----------------------------------------------------------------- helpers
NextAge(a) ==
  CASE a = "future" -> "due"
    [] a = "due" -> "overdue"
    [] OTHER -> "stale"

NoCall == [name |-> "none", severity |-> "absent", alertID |-> 0, err |-> FALSE]

\* ------------------------------------------------------------------- Init
\* NewSignalingServer / NewPCMWebSocketHandler: an empty registry, no client.
\* gemini.NewClient: the fields of a link whose dial has succeeded.
NewClient ==
  /\ audioBuffer = 0
  /\ timeSinceLastSend = 0
  /\ isProcessing = FALSE
  /\ audioChan = << >>
  /\ stopChan = "open"
  /\ geminiConn = "open"
  /\ sends = [fresh |-> 0, stale |-> 0, written |-> 0, forced |-> FALSE]
  /\ sendOrder = [pending |-> << >>, late |-> FALSE]
  /\ linkWorker = "run"
  /\ lastOffer = "none"
  /\ pace = [tick |-> 100, chunk |-> -1, flushes |-> 0, gap |-> -1]

\* NewWorkerManager followed by RegisterWorker for each worker: an open stop
\* channel, a zero wait group, no goroutine.
NewWorkerManager ==
  /\ wmStopChan = "open"
  /\ wg = 0
  /\ workerPc = [w \in Workers |-> "none"]
  /\ startPc = "none"
  /\ stopPc = "none"

InitRelay ==
  /\ NewClient
  /\ NewWorkerManager
  /\ clients = [k \in CPFs |-> NoClient]
  /\ sessions = [id \in SessionIDs |-> NoClient]
  /\ currentSession = [c \in Clients |-> 0]
  /\ teardowns = [c \in Clients |-> 0]
  /\ missed = 0
  /\ toDelete = {}
  /\ conn = [c \in Clients |-> "none"]
  /\ transportCloses = [c \in Clients |-> 0]
  /\ CPF = [c \in Clients |-> ""]
  /\ cancelled = [c \in Clients |-> FALSE]
  /\ active = [c \in Clients |-> FALSE]
  /\ GeminiClient = [c \in Clients |-> 0]
  /\ links = [c \in Clients |-> << >>]
  /\ reader = [c \in Clients |-> "none"]
  /\ writer = [c \in Clients |-> "none"]
  /\ watchdog = [c \in Clients |-> "none"]
  /\ listeners = [c \in Clients |-> [started |-> 0, exited |-> 0]]
  /\ idle = [c \in Clients |-> FALSE]
  /\ SendCh = [c \in Clients |-> 0]
  /\ toolResponses = << >>

\* The store as the scheduler finds it: schedules are created pending by an
\* external party, the Subject and its caregivers are externally managed.
InitStore(table) ==
  /\ agendamentos = [s \in Schedules |->
                       [status |-> StatusPending, age |-> "future",
                        ultima_tentativa |-> "null"]]
  /\ alertas = table
  /\ historico = [s \in Schedules |-> << >>]
  /\ timeline = [s \in Schedules |-> << >>]
  /\ pushes = [s \in Schedules |-> [incoming_call |-> 0, dispatched |-> 0,
                                    missed_call_alert |-> 0]]
  /\ schedPc = "idle"
  /\ rows = {}
  /\ sweepOutcome = [s \in Schedules |-> << >>]
  /\ saves = [i \in Segments |-> "none"]
  /\ analysis = "none"
  /\ notifications = << >>
  /\ tierAttempts = << >>
  /\ toolCall = NoCall
  /\ device_token_valido = TRUE

\* No alert has been raised yet.
InitDB == InitStore(<< >>)

Init ==
  /\ InitDB
  /\ InitRelay
  /\ fork = "pcm"
  /\ device_token \in {"", "tok", "short"}
  /\ cuidadores \in CaregiverConfigs

\* The relay on its own: the content of the store plays no part.
\* One connection of the pcm server in front of any caregiver configuration.
InitSession ==
  /\ InitDB
  /\ InitRelay
  /\ fork = "pcm"
  /\ device_token = "tok"
  /\ cuidadores \in CaregiverConfigs

InitFork(f) ==
  /\ InitDB
  /\ InitRelay
  /\ fork = f
  /\ device_token = "tok"
  /\ cuidadores = << [prioridade |-> 1, tok |-> TRUE] >>

\* ------------------------------------------------------- passage of time
AgeAdvance(s) ==
  /\ agendamentos[s].age # "stale"
  /\ agendamentos' = [agendamentos EXCEPT ![s].age = NextAge(@)]
  /\ UNCHANGED << device_token, device_token_valido, cuidadores, alertas,
                  historico, timeline, pushes, schedPc, rows, sweepOutcome, toolCall, relayVars, linkVars, saves, analysis, notifications, tierAttempts, workerVars >>

\* 45 seconds have passed since ultima_tentativa; data_hora_agendada, which
\* is no later, is then more than 45 seconds old as well.
AttemptAges(s) ==
  /\ agendamentos[s].ultima_tentativa = "now"
  /\ agendamentos[s].age \in {"overdue", "stale"}
  /\ agendamentos' = [agendamentos EXCEPT ![s].ultima_tentativa = "old"]
  /\ UNCHANGED << device_token, device_token_valido, cuidadores, alertas,
                  historico, timeline, pushes, schedPc, rows, sweepOutcome,
                  saves, analysis, notifications, tierAttempts, workerVars, toolCall, relayVars, linkVars >>

\* ------------------------------------------------------------- scheduler
\* UPDATE agendamentos SET status = $1 WHERE id = $2 ; an error is only logged
updateStatus(id, status, ok) ==
  IF ok THEN [agendamentos EXCEPT ![id].status = status] ELSE agendamentos

\* UPDATE ... SET status = $1, ultima_tentativa = NOW() WHERE id = $2
updateStatusWithTimestamp(id, status, ok) ==
  IF ok THEN [agendamentos EXCEPT ![id].status = status,
                                  ![id].ultima_tentativa = "now"]
  ELSE agendamentos

\* The SELECT of checkAndTriggerCalls: pending rows whose time has come.
DueRows ==
  { s \in Schedules : /\ agendamentos[s].status = StatusPending
                      /\ agendamentos[s].age # "future" }

\* Fast tick, first half: run the SELECT (LIMIT 10) and start iterating.
checkAndTriggerCalls ==
  /\ schedPc = "idle"
  /\ \E sel \in SUBSET DueRows :
       /\ Cardinality(sel) = IF Cardinality(DueRows) < FireLimit
                             THEN Cardinality(DueRows) ELSE FireLimit
       /\ rows' = sel
  /\ schedPc' = "fire"
  /\ UNCHANGED << agendamentos, device_token, device_token_valido, cuidadores,
                  alertas, historico, timeline, pushes, sweepOutcome, toolCall, relayVars, linkVars, saves, analysis, notifications, tierAttempts, workerVars >>

\* ValidateToken: false for an empty token; otherwise a silent test message
\* is sent and, when the provider refuses it (~accepted), the failure is
\* logged with deviceToken[:10], which panics on a token under 10 bytes.
ValidateToken(deviceToken, accepted) ==
  IF deviceToken = "" THEN "invalid"
  ELSE IF accepted THEN "valid"
  ELSE IF deviceToken = "short" THEN "panic"
  ELSE "invalid"

\* One iteration of the rows loop of checkAndTriggerCalls.
FireRow(s) ==
  /\ schedPc = "fire"
  /\ s \in rows
  /\ \E ok \in BOOLEAN :
       \/ /\ device_token = ""
          /\ agendamentos' = updateStatus(s, StatusNoToken, ok)
          /\ rows' = rows \ {s}
          /\ UNCHANGED << device_token_valido, pushes, schedPc >>
       \/ /\ device_token # ""
          /\ \E accepted \in BOOLEAN, sent \in BOOLEAN :
               LET valid == ValidateToken(device_token, accepted) IN
               IF valid = "panic"
               THEN /\ schedPc' = "panic"
                    /\ rows' = {}
                    /\ UNCHANGED << agendamentos, device_token_valido, pushes >>
               ELSE IF valid = "invalid"
               THEN /\ agendamentos' = updateStatus(s, StatusInvalidToken, ok)
                    /\ device_token_valido' = FALSE
                    /\ rows' = rows \ {s}
                    /\ UNCHANGED << pushes, schedPc >>
               ELSE /\ pushes[s].incoming_call < MaxInvites
                    /\ pushes' = [pushes EXCEPT
                                   ![s].incoming_call = @ + 1,
                                   ![s].dispatched = IF sent THEN @ + 1 ELSE @]
                    /\ agendamentos' = IF sent
                                       THEN updateStatusWithTimestamp(s, StatusInProgress, ok)
                                       ELSE updateStatus(s, StatusSendFailed, ok)
                    /\ rows' = rows \ {s}
                    /\ UNCHANGED << device_token_valido, schedPc >>
  /\ UNCHANGED << device_token, cuidadores, alertas, historico, timeline,
                  sweepOutcome, saves, analysis, notifications, tierAttempts, workerVars, toolCall,
                  relayVars, linkVars >>

\* The SELECT of checkMissedCalls without its status filter.
MissedRowsAnyStatus ==
  { s \in Schedules : agendamentos[s].age \in {"overdue", "stale"} }

\* The SELECT of checkMissedCalls.
MissedRows ==
  { s \in Schedules : /\ agendamentos[s].status = StatusInProgress
                      /\ agendamentos[s].age \in {"overdue", "stale"} }

\* Fast tick, second half: checkAndTriggerCalls has returned, checkMissedCalls
\* runs its SELECT.
checkMissedCalls ==
  /\ schedPc = "fire"
  /\ rows = {}
  /\ rows' = MissedRows
  /\ schedPc' = "sweep"
  /\ UNCHANGED << agendamentos, device_token, device_token_valido, cuidadores,
                  alertas, historico, timeline, pushes, sweepOutcome, toolCall, relayVars, linkVars, saves, analysis, notifications, tierAttempts, workerVars >>

\* c.device_token of the LEFT JOINed caregiver with prioridade = 1 is non-empty
PrimaryHasToken ==
  \E i \in 1..Len(cuidadores) : cuidadores[i].prioridade = 1 /\ cuidadores[i].tok

MissedAlert(s) ==
  [tipo |-> "nao_atende_telefone", severidade |-> "aviso", enviado |-> FALSE,
   visualizado |-> FALSE, necessita_escalamento |-> FALSE,
   tempo_escalamento |-> "null", tentativas_envio |-> 0, sched |-> s]

\* checkMissedCalls, step 5 with a caregiver token, escalating in ten minutes.
MarkMissedAlertTenMinutes(inserted, alertID, okPush) ==
  IF alertID = 0 THEN inserted
  ELSE IF okPush
       THEN [inserted EXCEPT ![alertID].enviado = TRUE]
       ELSE [inserted EXCEPT ![alertID].necessita_escalamento = TRUE,
                             ![alertID].tempo_escalamento = "in10m"]

\* checkMissedCalls, step 5 with a caregiver token: the UPDATE of the alert
\* after SendMissedCallAlert; with alertID 0 (the INSERT failed) it matches
\* no row.
MarkMissedAlert(inserted, alertID, okPush) ==
  IF alertID = 0 THEN inserted
  ELSE IF okPush
       THEN [inserted EXCEPT ![alertID].enviado = TRUE]
       ELSE [inserted EXCEPT ![alertID].necessita_escalamento = TRUE,
                             ![alertID].tempo_escalamento = "in5m"]

\* One iteration of the rows loop of checkMissedCalls.
SweepRow(s) ==
  /\ schedPc = "sweep"
  /\ s \in rows
  /\ rows' = rows \ {s}
  /\ \E okUpdate \in BOOLEAN, okHist \in BOOLEAN, okAlert \in BOOLEAN,
        okTimeline \in BOOLEAN, okPush \in BOOLEAN :
       IF ~okUpdate
       THEN UNCHANGED << agendamentos, historico, alertas, timeline, pushes,
                         sweepOutcome, saves, analysis, notifications, tierAttempts, workerVars >>
       ELSE
         LET alertID == IF okAlert THEN Len(alertas) + 1 ELSE 0
             inserted == IF okAlert THEN Append(alertas, MissedAlert(s)) ELSE alertas
         IN
         /\ agendamentos' = [agendamentos EXCEPT ![s].status = StatusUnanswered,
                                                 ![s].ultima_tentativa = "now"]
         /\ sweepOutcome' = [sweepOutcome EXCEPT ![s] =
                               Append(@, [hist |-> okHist, alert |-> okAlert,
                                          timeline |-> okTimeline,
                                          alertID |-> alertID,
                                          push |-> IF ~PrimaryHasToken THEN "none"
                                                   ELSE IF okPush THEN "sent"
                                                   ELSE "failed"])]
         /\ historico' = IF okHist
                         THEN [historico EXCEPT ![s] =
                                 Append(@, [duracao_segundos |-> 45,
                                            tarefa_concluida |-> FALSE])]
                         ELSE historico
         /\ timeline' = IF okTimeline
                        THEN [timeline EXCEPT ![s] =
                                Append(@, [tipo |-> "ligacao", subtipo |-> "nao_atendida"])]
                        ELSE timeline
         /\ IF PrimaryHasToken
            THEN /\ pushes' = [pushes EXCEPT ![s].missed_call_alert = @ + 1]
                 /\ alertas' = MarkMissedAlert(inserted, alertID, okPush)
            ELSE /\ pushes' = pushes
                 /\ alertas' = inserted
  /\ UNCHANGED << device_token, device_token_valido, cuidadores, schedPc, toolCall, relayVars, linkVars, saves, analysis, notifications, tierAttempts, workerVars >>

\* checkMissedCalls has iterated over every row: the tick is over.
FastTickDone ==
  /\ schedPc = "sweep"
  /\ rows = {}
  /\ schedPc' = "idle"
  /\ UNCHANGED << agendamentos, device_token, device_token_valido, cuidadores,
                  alertas, historico, timeline, pushes, rows, sweepOutcome, toolCall, relayVars, linkVars, saves, analysis, notifications, tierAttempts, workerVars >>

\* ------------------------------------------- register-time schedule update
\* The rows matched by the UPDATE that handleRegister issues in a goroutine.
AnswerRows ==
  { s \in Schedules :
      /\ agendamentos[s].status \in {StatusPending, StatusInProgress, StatusWaiting}
      /\ agendamentos[s].age # "stale" }

\* The goroutine started by handleRegister once a device has registered for
\* the Subject: one guarded UPDATE.
RegisterAnswer ==
  /\ AnswerRows # {}
  /\ agendamentos' =
       [s \in Schedules |->
          IF s \in AnswerRows
          THEN [agendamentos[s] EXCEPT !.status = StatusInCall]
          ELSE agendamentos[s]]
  /\ UNCHANGED << device_token, device_token_valido, cuidadores, alertas,
                  historico, timeline, pushes, schedPc, rows, sweepOutcome, toolCall, relayVars, linkVars, saves, analysis, notifications, tierAttempts, workerVars >>

\* ------------------------------------------------------ confirm_medication
\* ConfirmMedication returns an error only when the first INSERT fails.
ConfirmMedicationErr(okInsert) == ~okInsert

\* today: the schedules whose DATE(data_hora_agendada) is CURRENT_DATE.
ConfirmMedication(today, okInsert, okUpdate) ==
  [s \in Schedules |->
     IF okInsert /\ okUpdate /\ s \in today /\ agendamentos[s].status = StatusInProgress
     THEN [agendamentos[s] EXCEPT !.status = StatusCompleted]
     ELSE agendamentos[s]]

\* confirm_medication reaching the store from a live session.
ConfirmMedicationCall ==
  /\ \E today \in SUBSET Schedules, okInsert \in BOOLEAN, okUpdate \in BOOLEAN :
       /\ agendamentos' = ConfirmMedication(today, okInsert, okUpdate)
       /\ agendamentos' # agendamentos
  /\ UNCHANGED << device_token, device_token_valido, cuidadores, alertas,
                  historico, timeline, pushes, schedPc, rows, sweepOutcome, toolCall, relayVars, linkVars, saves, analysis, notifications, tierAttempts, workerVars >>

NextSched ==
  \/ \E s \in Schedules : AgeAdvance(s)
  \/ checkAndTriggerCalls
  \/ \E s \in Schedules : FireRow(s)
  \/ checkMissedCalls
  \/ \E s \in Schedules : SweepRow(s)
  \/ FastTickDone
  \/ RegisterAnswer
  \/ ConfirmMedicationCall

SpecSched == Init /\ [][NextSched]_vars

\* The scheduler with the age of the last attempt observed.
NextSchedTimed ==
  \/ NextSched
  \/ \E s \in Schedules : AttemptAges(s)

SpecSchedTimed == Init /\ [][NextSchedTimed]_vars

\* ------------------------------------------------------------ alert_family
FamilyAlert(severity) ==
  [tipo |-> "familia", severidade |-> severity, enviado |-> FALSE,
   visualizado |-> FALSE, necessita_escalamento |-> FALSE,
   tempo_escalamento |-> "null", tentativas_envio |-> 0, sched |-> 0]

\* number of caregivers whose device_token is valid and non-empty
TokenCount == Cardinality({ i \in 1..Len(cuidadores) : cuidadores[i].tok })

FamilyAlertCount ==
  Cardinality({ i \in 1..Len(alertas) : alertas[i].tipo = "familia" })

\* AlertFamilyWithSeverity recording no attempt when every push has failed.
AlertFamilyWithSeverityNoAttempt(severity, okQuery, okInsert, successCount) ==
  IF ~okQuery \/ Len(cuidadores) = 0
  THEN [alertas |-> alertas, alertID |-> 0, err |-> TRUE]
  ELSE
    LET alertID == IF okInsert THEN Len(alertas) + 1 ELSE 0
        inserted == IF okInsert THEN Append(alertas, FamilyAlert(severity)) ELSE alertas
    IN
    IF successCount = 0
    THEN [alertas |-> IF alertID # 0
                      THEN [inserted EXCEPT ![alertID].necessita_escalamento = TRUE]
                      ELSE inserted,
          alertID |-> alertID, err |-> TRUE]
    ELSE [alertas |-> IF alertID # 0
                      THEN [inserted EXCEPT ![alertID].enviado = TRUE]
                      ELSE inserted,
          alertID |-> alertID, err |-> FALSE]

\* AlertFamilyWithSeverity: the alertas table it leaves, the id of the row
\* it inserted (0 when the INSERT failed or was not reached) and whether it
\* returns an error.  okQuery, okInsert: the store's answers; successCount:
\* how many of the pushes the provider accepted.
AlertFamilyWithSeverity(severity, okQuery, okInsert, successCount) ==
  IF ~okQuery \/ Len(cuidadores) = 0
  THEN [alertas |-> alertas, alertID |-> 0, err |-> TRUE]
  ELSE
    LET alertID == IF okInsert THEN Len(alertas) + 1 ELSE 0
        inserted == IF okInsert THEN Append(alertas, FamilyAlert(severity)) ELSE alertas
        pushed == IF successCount > 0 /\ alertID # 0
                  THEN [inserted EXCEPT ![alertID].enviado = TRUE]
                  ELSE inserted
    IN
    IF successCount = 0
    THEN [alertas |-> IF alertID # 0
                      THEN [pushed EXCEPT ![alertID].necessita_escalamento = TRUE,
                                          ![alertID].tentativas_envio = @ + 1]
                      ELSE pushed,
          alertID |-> alertID, err |-> TRUE]
    ELSE [alertas |-> IF severity = "critica" /\ alertID # 0
                      THEN [pushed EXCEPT ![alertID].necessita_escalamento = TRUE,
                                          ![alertID].tempo_escalamento = "in5m"]
                      ELSE pushed,
          alertID |-> alertID, err |-> FALSE]

\* AlertFamily: the default severity.
AlertFamily(okQuery, okInsert, successCount) ==
  AlertFamilyWithSeverity("alta", okQuery, okInsert, successCount)

\* A caller of the exported AlertFamilyWithSeverity.
AlertFamilyWithSeverityCall ==
  /\ FamilyAlertCount < MaxFamilyAlerts
  /\ \E severity \in Severities, okQuery \in BOOLEAN, okInsert \in BOOLEAN,
        successCount \in 0..TokenCount :
       LET r == AlertFamilyWithSeverity(severity, okQuery, okInsert, successCount)
       IN /\ alertas' = r.alertas
          /\ alertas' # alertas
  /\ UNCHANGED << agendamentos, device_token, device_token_valido, cuidadores,
                  historico, timeline, pushes, schedPc, rows, sweepOutcome, toolCall, relayVars, linkVars, saves, analysis, notifications, tierAttempts, workerVars >>

\* time.Now().UnixNano() as of the last push handed to the provider.
LastStamp ==
  IF notifications = << >> THEN 0 ELSE notifications[Len(notifications)].alert_id

\* The pushes of one AlertFamilyWithSeverity call, one SendAlertNotification
\* per caregiver token in order: the payload's alert_id is
\* "alert-<UnixNano>" of the moment of the send, and a round trip to the
\* provider separates two sends.  outcomes: the provider's answer to each.
AlertPushes(alertID, outcomes) ==
  [k \in 1..Len(outcomes) |->
     [alerta |-> alertID, alert_id |-> LastStamp + k, ok |-> outcomes[k]]]

Successes(outcomes) == Cardinality({ k \in 1..Len(outcomes) : outcomes[k] })

\* AlertFamilyWithSeverity with the pushes it hands to the provider.
AlertFamilyWithSeverityPushes ==
  /\ FamilyAlertCount < MaxFamilyAlerts
  /\ Len(notifications) + TokenCount <= MaxPushes
  /\ \E severity \in Severities, okQuery \in BOOLEAN, okInsert \in BOOLEAN,
        outcomes \in [1..TokenCount -> BOOLEAN] :
       LET r == AlertFamilyWithSeverity(severity, okQuery, okInsert,
                                        Successes(outcomes))
       IN /\ alertas' = r.alertas
          /\ notifications' =
               IF ~okQuery \/ Len(cuidadores) = 0 THEN notifications
               ELSE notifications \o AlertPushes(r.alertID, outcomes)
          /\ alertas' # alertas \/ notifications' # notifications
  /\ UNCHANGED << agendamentos, device_token, device_token_valido, cuidadores,
                  historico, timeline, pushes, schedPc, rows, sweepOutcome, saves,
                  analysis, tierAttempts, workerVars, toolCall, relayVars, linkVars >>

\* executeTool, case "alert_family": only args["reason"] is read.  severity is
\* the severity argument of the function call, "absent" when it has none.
AlertFamilyTool ==
  /\ FamilyAlertCount < MaxFamilyAlerts
  /\ \E severity \in Severities \cup {"absent"}, okQuery \in BOOLEAN,
        okInsert \in BOOLEAN, successCount \in 0..TokenCount :
       LET r == AlertFamily(okQuery, okInsert, successCount)
       IN /\ alertas' = r.alertas
          /\ toolCall' = [name |-> "alert_family", severity |-> severity,
                          alertID |-> r.alertID, err |-> r.err]
  /\ UNCHANGED agendamentos

\* executeTool, case "confirm_medication"
ConfirmMedicationTool ==
  /\ \E today \in SUBSET Schedules, okInsert \in BOOLEAN, okUpdate \in BOOLEAN :
       /\ agendamentos' = ConfirmMedication(today, okInsert, okUpdate)
       /\ toolCall' = [name |-> "confirm_medication", severity |-> "absent",
                       alertID |-> 0, err |-> ConfirmMedicationErr(okInsert)]
  /\ UNCHANGED alertas

\* An alert_family call reaching the store from some session.
executeToolAlertFamily ==
  /\ AlertFamilyTool
  /\ UNCHANGED << device_token, device_token_valido, cuidadores,
                  historico, timeline, pushes, schedPc, rows, sweepOutcome, relayVars, linkVars, saves, analysis, notifications, tierAttempts, workerVars >>

\* executeTool with a variant that treats a tool error as fatal to the
\* session and answers the provider with a rejection.
executeToolFatal(c) ==
  /\ AlertFamilyTool \/ ConfirmMedicationTool
  /\ IF toolCall'.err
     THEN /\ active' = [active EXCEPT ![c] = FALSE]
          /\ toolResponses' = Append(toolResponses, "rejected")
     ELSE UNCHANGED << active, toolResponses >>
  /\ UNCHANGED << device_token, device_token_valido, cuidadores,
                  historico, timeline, pushes, schedPc, rows, sweepOutcome,
                  fork, sigVars, clients, conn, transportCloses, CPF, cancelled, GeminiClient, links,
                  reader, writer, watchdog, listeners, idle, SendCh, linkVars, saves, analysis, notifications, tierAttempts, workerVars >>

\* executeTool on behalf of client c: run the tool, log an error if it
\* returns one, touch nothing of the session.
executeTool(c) ==
  /\ AlertFamilyTool \/ ConfirmMedicationTool
  /\ UNCHANGED << device_token, device_token_valido, cuidadores,
                  historico, timeline, pushes, schedPc, rows, sweepOutcome,
                  fork, sigVars, clients, conn, transportCloses, CPF, cancelled, active, GeminiClient, links,
                  reader, writer, watchdog, listeners, idle, SendCh, toolResponses,
                  linkVars, saves, analysis, notifications, tierAttempts, workerVars >>

\* --------------------------------------------------------- escalation pass
\* The SELECT of CheckUnacknowledgedAlerts without its severity filter.
StaleAlertsAnySeverity ==
  { i \in 1..Len(alertas) : /\ ~alertas[i].visualizado
                            /\ alertas[i].necessita_escalamento
                            /\ alertas[i].tempo_escalamento = "past" }

\* The SELECT of CheckUnacknowledgedAlerts.
StaleAlerts ==
  { i \in 1..Len(alertas) : /\ ~alertas[i].visualizado
                            /\ alertas[i].necessita_escalamento
                            /\ alertas[i].tempo_escalamento = "past"
                            /\ alertas[i].severidade \in {"critica", "alta"} }

\* Slow tick: CheckUnacknowledgedAlerts runs its SELECT.
CheckUnacknowledgedAlerts ==
  /\ schedPc = "idle"
  /\ rows' = StaleAlerts
  /\ schedPc' = "escalate"
  /\ UNCHANGED << agendamentos, device_token, device_token_valido, cuidadores,
                  alertas, historico, timeline, pushes, sweepOutcome, toolCall, relayVars, linkVars, saves, analysis, notifications, tierAttempts, workerVars >>

\* One iteration of the rows loop of CheckUnacknowledgedAlerts: a log line and
\* the UPDATE; the call of the next tier is commented out (lines 332-335), so
\* no SMS, e-mail or voice attempt is made.
EscalateRow(a) ==
  /\ schedPc = "escalate"
  /\ a \in rows
  /\ alertas[a].tentativas_envio < MaxAttempts
  /\ rows' = rows \ {a}
  /\ alertas' = [alertas EXCEPT ![a].tentativas_envio = @ + 1,
                                ![a].tempo_escalamento = "in10m"]
  /\ UNCHANGED << agendamentos, device_token, device_token_valido, cuidadores,
                  historico, timeline, pushes, schedPc, sweepOutcome, toolCall, relayVars, linkVars, saves, analysis, notifications, tierAttempts, workerVars >>

\* CheckUnacknowledgedAlerts returns.
SlowTickDone ==
  /\ schedPc = "escalate"
  /\ \A a \in rows : alertas[a].tentativas_envio >= MaxAttempts
  /\ rows' = {}
  /\ schedPc' = "idle"
  /\ UNCHANGED << agendamentos, device_token, device_token_valido, cuidadores,
                  alertas, historico, timeline, pushes, sweepOutcome, toolCall, relayVars, linkVars, saves, analysis, notifications, tierAttempts, workerVars >>

\* The caregiver opens the alert (external acknowledgement).
Acknowledge(a) ==
  /\ a \in 1..Len(alertas)
  /\ ~alertas[a].visualizado
  /\ alertas' = [alertas EXCEPT ![a].visualizado = TRUE]
  /\ UNCHANGED << agendamentos, device_token, device_token_valido, cuidadores,
                  historico, timeline, pushes, schedPc, rows, sweepOutcome, toolCall, relayVars, linkVars, saves, analysis, notifications, tierAttempts, workerVars >>

\* Five minutes pass for alert a: a tempo_escalamento ten minutes ahead is
\* five minutes ahead, one five minutes ahead is reached by NOW().
EscalationTimeReached(a) ==
  /\ a \in 1..Len(alertas)
  /\ alertas[a].tempo_escalamento \in {"in5m", "in10m"}
  /\ alertas' = [alertas EXCEPT ![a].tempo_escalamento =
                                  IF @ = "in10m" THEN "in5m" ELSE "past"]
  /\ UNCHANGED << agendamentos, device_token, device_token_valido, cuidadores,
                  historico, timeline, pushes, schedPc, rows, sweepOutcome, toolCall, relayVars, linkVars, saves, analysis, notifications, tierAttempts, workerVars >>

AlertIds == 1..(MaxFamilyAlerts + NSched)

NextAlert ==
  \/ AlertFamilyWithSeverityCall
  \/ executeToolAlertFamily
  \/ CheckUnacknowledgedAlerts
  \/ \E a \in AlertIds : EscalateRow(a)
  \/ SlowTickDone
  \/ \E a \in AlertIds : Acknowledge(a)
  \/ \E a \in AlertIds : EscalationTimeReached(a)

SpecAlert == Init /\ [][NextAlert]_vars

\* The alert rows the escalation pass can find, as their creators leave them:
\* family alerts of each kind of outcome (every push failed; some push
\* succeeded, critical or not) and missed-call alerts (push sent, push
\* failed, no caregiver token).
AlertRows ==
  { [FamilyAlert("alta") EXCEPT !.necessita_escalamento = TRUE,
                                !.tentativas_envio = 1],
    [FamilyAlert("alta") EXCEPT !.enviado = TRUE],
    [FamilyAlert("media") EXCEPT !.enviado = TRUE],
    [FamilyAlert("critica") EXCEPT !.enviado = TRUE,
                                   !.necessita_escalamento = TRUE,
                                   !.tempo_escalamento = "in5m"] }
  \cup { MarkMissedAlert(<< MissedAlert(1) >>, 1, okPush)[1] : okPush \in BOOLEAN }
  \cup { MissedAlert(1) }

\* The alertas tables the escalation pass is run on.
AlertTables ==
  { << >> } \cup { << r >> : r \in AlertRows }
            \cup { << r, q >> : r \in AlertRows, q \in AlertRows }

InitEscalation ==
  /\ \E table \in AlertTables : InitStore(table)
  /\ InitRelay
  /\ fork = "pcm"
  /\ device_token = "tok"
  /\ cuidadores = << [prioridade |-> 1, tok |-> TRUE] >>

\* The escalation pass over a store that other parties have filled, while
\* time passes and caregivers acknowledge.
NextEscalation ==
  \/ CheckUnacknowledgedAlerts
  \/ \E a \in AlertIds : EscalateRow(a)
  \/ SlowTickDone
  \/ \E a \in AlertIds : Acknowledge(a)
  \/ \E a \in AlertIds : EscalationTimeReached(a)

SpecEscalation == InitEscalation /\ [][NextEscalation]_vars

\* The slow ticker of Scheduler.Start fires every two minutes, each pass runs
\* to its end, and time passes.
FairSpecAlert ==
  /\ SpecAlert
  /\ WF_vars(CheckUnacknowledgedAlerts)
  /\ \A a \in AlertIds : WF_vars(EscalateRow(a))
  /\ WF_vars(SlowTickDone)
  /\ \A a \in AlertIds : WF_vars(EscalationTimeReached(a))

\* alert_family calls seen together with the pushes they send.
NextNotify ==
  \/ AlertFamilyWithSeverityPushes
  \/ \E a \in AlertIds : Acknowledge(a)
  \/ \E a \in AlertIds : EscalationTimeReached(a)

SpecNotify == Init /\ [][NextNotify]_vars

\* ------------------------------------------ properties: schedules, alerts
TerminalStatuses ==
  {StatusCompleted, StatusUnanswered, StatusNoToken, StatusInvalidToken,
   StatusSendFailed}

\* The edges of the status DAG; the failed-* statuses are also reachable
\* straight from pending, as fire_due sets them.
DagEdges ==
  ({StatusPending} \X ({StatusInProgress} \cup TerminalStatuses))
    \cup ({StatusInProgress} \X TerminalStatuses)

\* C3: every change of a Schedule's status follows an edge of the DAG
\* pending -> in-progress -> {completed, unanswered, failed-*}, and a
\* Schedule that holds a terminal status never changes status again.
C3_StatusDag ==
  [][\A s \in Schedules :
       agendamentos'[s].status # agendamentos[s].status
         => /\ <<agendamentos[s].status, agendamentos'[s].status>> \in DagEdges
            /\ agendamentos[s].status \notin TerminalStatuses]_vars

\* C4: every unacknowledged Alert of severity critical has needs-escalation
\* set and a non-null escalation-at, in every state from its creation on.
C4_CriticalEscalates ==
  \A i \in 1..Len(alertas) :
    (alertas[i].severidade = "critica" /\ ~alertas[i].visualizado)
      => /\ alertas[i].necessita_escalamento
         /\ alertas[i].tempo_escalamento # "null"

\* C7: the Alert created by an alert_family tool call is of kind family and
\* has the severity the call carried, or high when it carried none.
C7_SeverityHonoured ==
  (toolCall.name = "alert_family" /\ toolCall.alertID # 0)
    => /\ alertas[toolCall.alertID].tipo = "familia"
       /\ alertas[toolCall.alertID].severidade =
            IF toolCall.severity = "absent" THEN "alta" ELSE toolCall.severity

\* C22: every push sent for one Alert carries the same alert identifier,
\* and pushes sent for different Alerts carry different identifiers.
C22_DedupByAlertId ==
  \A i, j \in 1..Len(notifications) :
    /\ (notifications[i].alerta = notifications[j].alerta /\ notifications[i].alerta # 0)
         => notifications[i].alert_id = notifications[j].alert_id
    /\ notifications[i].alerta # notifications[j].alerta
         => notifications[i].alert_id # notifications[j].alert_id

\* C23: an Alert whose push delivery failed (needs-escalation set, not sent)
\* is, unless it is acknowledged, eventually selected by the escalation pass
\* of the scheduler.
C23_FailedPushEscalated ==
  \A a \in AlertIds :
    (/\ a <= Len(alertas)
     /\ alertas[a].necessita_escalamento
     /\ ~alertas[a].enviado)
      ~> (/\ a <= Len(alertas)
          /\ alertas[a].visualizado \/ (schedPc = "escalate" /\ a \in rows))

\* C31: each escalation of an Alert attempts the next enabled tier of the
\* chain push, SMS, e-mail, voice call: the first escalation of an Alert makes
\* one SMS attempt for it and its second escalation one e-mail attempt.
C31_EscalationTriesNextTier ==
  [][\A a \in AlertIds :
       EscalateRow(a)
         => tierAttempts' =
              Append(tierAttempts,
                     [alerta |-> a,
                      tier |-> IF \E n \in 1..Len(tierAttempts) :
                                     tierAttempts[n].alerta = a
                               THEN "email" ELSE "sms"])]_vars

C28_FireOutcomes ==
  [][\A s \in Schedules :
       FireRow(s)
         => \/ /\ device_token = ""
               /\ agendamentos'[s].status = StatusNoToken
               /\ pushes' = pushes
            \/ /\ device_token # ""
               /\ agendamentos'[s].status = StatusInvalidToken
               /\ ~device_token_valido'
               /\ pushes' = pushes
            \/ /\ device_token # ""
               /\ agendamentos'[s].status = StatusInProgress
               /\ agendamentos'[s].ultima_tentativa = "now"
               /\ pushes'[s].incoming_call = pushes[s].incoming_call + 1]_vars

C38_OneInvite ==
  \A s \in Schedules : pushes[s].dispatched <= 1

\* C24: a Schedule becomes unanswered only when 45 seconds have passed
\* since its call invite was sent and it became in-progress.
C24_UnansweredAfter45s ==
  [][\A s \in Schedules :
       (agendamentos[s].status # StatusUnanswered
          /\ agendamentos'[s].status = StatusUnanswered)
         => agendamentos[s].ultima_tentativa = "old"]_vars

MissedAlertsOf(s) ==
  { i \in 1..Len(alertas) :
      alertas[i].sched = s /\ alertas[i].tipo = "nao_atende_telefone" }

SyntheticCallRecord == [duracao_segundos |-> 45, tarefa_concluida |-> FALSE]

TranscriptSchedule ==
  LET open == { s \in Schedules :
                  agendamentos[s].status \in {StatusPending, StatusInProgress} }
  IN CHOOSE s \in open : \A t \in open : t <= s

\* Rows the UPDATE can pick: fim_chamada IS NULL and inicio_chamada within the
\* last 5 minutes.
ActiveRows(s) ==
  { r \in 1..Len(historico[s]) :
      historico[s][r].fim_chamada = "null" /\ historico[s][r].recent }

Newest(rs) == CHOOSE r \in rs : \A q \in rs : q <= r

\* handleGeminiResponse finds a transcription in the response and starts
\* `go s.saveTranscription(...)`.
handleTranscription(i) ==
  /\ analysis = "none"
  /\ saves[i] = "none"
  /\ \A j \in Segments : j < i => saves[j] # "none"
  /\ saves' = [saves EXCEPT ![i] = "update"]
  /\ UNCHANGED << agendamentos, device_token, device_token_valido, cuidadores,
                  alertas, historico, timeline, pushes, schedPc, rows, sweepOutcome,
                  analysis, notifications, tierAttempts, workerVars, toolCall, relayVars, linkVars >>

\* saveTranscription, first statement: UPDATE ... RETURNING id on the newest
\* active row; sql.ErrNoRows when there is none.
saveTranscriptionUpdate(i) ==
  /\ saves[i] = "update"
  /\ LET s == TranscriptSchedule IN
       IF ActiveRows(s) # {}
       THEN /\ historico' = [historico EXCEPT
                               ![s][Newest(ActiveRows(s))].transcricao = Append(@, i)]
            /\ saves' = [saves EXCEPT ![i] = "done"]
       ELSE /\ saves' = [saves EXCEPT ![i] = "insert"]
            /\ UNCHANGED historico
  /\ UNCHANGED << agendamentos, device_token, device_token_valido, cuidadores,
                  alertas, timeline, pushes, schedPc, rows, sweepOutcome,
                  analysis, notifications, tierAttempts, workerVars, toolCall, relayVars, linkVars >>

\* saveTranscription, second statement: INSERT a new row holding the segment.
saveTranscriptionInsert(i) ==
  /\ saves[i] = "insert"
  /\ historico' = [historico EXCEPT ![TranscriptSchedule] =
                     Append(@, [transcricao |-> << i >>, fim_chamada |-> "null",
                                analise_gemini |-> "null", recent |-> TRUE])]
  /\ saves' = [saves EXCEPT ![i] = "done"]
  /\ UNCHANGED << agendamentos, device_token, device_token_valido, cuidadores,
                  alertas, timeline, pushes, schedPc, rows, sweepOutcome,
                  analysis, notifications, tierAttempts, workerVars, toolCall, relayVars, linkVars >>

\* Five minutes pass: no existing row is recent any more.
FiveMinutesPass ==
  /\ \E s \in Schedules : \E r \in 1..Len(historico[s]) : historico[s][r].recent
  /\ historico' = [s \in Schedules |->
                     [r \in 1..Len(historico[s]) |->
                        [historico[s][r] EXCEPT !.recent = FALSE]]]
  /\ UNCHANGED << agendamentos, device_token, device_token_valido, cuidadores,
                  alertas, timeline, pushes, schedPc, rows, sweepOutcome, saves, analysis, notifications, tierAttempts, workerVars,
                  toolCall, relayVars, linkVars >>

\* cleanupSession on hangup or disconnect: the session is removed and
\* `go s.analyzeAndSaveConversation` is started.  The response reader stops
\* with the session; saveTranscription goroutines already started go on.
cleanupSessionAnalysis ==
  /\ analysis = "none"
  /\ analysis' = "pending"
  /\ UNCHANGED << agendamentos, device_token, device_token_valido, cuidadores,
                  alertas, historico, timeline, pushes, schedPc, rows, sweepOutcome,
                  saves, notifications, tierAttempts, workerVars, toolCall, relayVars, linkVars >>

\* LENGTH(transcricao_completa): the segments, joined by a newline each.
BlobChars(blob) ==
  IF Len(blob) = 0 THEN 0 ELSE Len(blob) * SegmentChars + (Len(blob) - 1)

\* The SELECT of analyzeAndSaveConversation: rows without fim_chamada whose
\* transcript is longer than 50 characters.
AnalysableRows(s) ==
  { r \in 1..Len(historico[s]) :
      /\ historico[s][r].fim_chamada = "null"
      /\ BlobChars(historico[s][r].transcricao) > MinTranscriptChars }

\* analyzeAndSaveConversation: SELECT the newest analysable row, call the
\* analyzer, store fim_chamada and the verdict in one UPDATE; it returns at
\* the first step that fails.  okAnalysis: gemini.AnalyzeConversation
\* returned a verdict; okUpdate: the store accepted the UPDATE.
analyzeAndSaveConversation ==
  /\ analysis = "pending"
  /\ analysis' = "done"
  /\ \E okAnalysis \in BOOLEAN, okUpdate \in BOOLEAN :
       LET s == TranscriptSchedule IN
         IF AnalysableRows(s) # {} /\ okAnalysis /\ okUpdate
         THEN historico' = [historico EXCEPT
                              ![s][Newest(AnalysableRows(s))].fim_chamada = "set",
                              ![s][Newest(AnalysableRows(s))].analise_gemini = "set"]
         ELSE UNCHANGED historico
  /\ UNCHANGED << agendamentos, device_token, device_token_valido, cuidadores,
                  alertas, timeline, pushes, schedPc, rows, sweepOutcome, saves,
                  notifications, tierAttempts, workerVars, toolCall, relayVars, linkVars >>

NextTranscript ==
  \/ \E i \in Segments : handleTranscription(i)
  \/ \E i \in Segments : saveTranscriptionUpdate(i)
  \/ \E i \in Segments : saveTranscriptionInsert(i)
  \/ FiveMinutesPass
  \/ cleanupSessionAnalysis
  \/ analyzeAndSaveConversation

SpecTranscript == InitFork("signaling") /\ [][NextTranscript]_vars

\* Every goroutine that has been started gets to run.
FairSpecTranscript ==
  /\ SpecTranscript
  /\ \A i \in Segments : WF_vars(saveTranscriptionUpdate(i))
  /\ \A i \in Segments : WF_vars(saveTranscriptionInsert(i))
  /\ WF_vars(analyzeAndSaveConversation)

\* ------------------------------------------------ properties: transcripts
\* C19: the segments of a transcript blob stand in the order in which the
\* response reader received them.
C19_TranscriptInOrder ==
  \A s \in Schedules : \A r \in 1..Len(historico[s]) :
    LET blob == historico[s][r].transcricao IN
      \A a, b \in 1..Len(blob) : a < b => blob[a] < blob[b]

\* C21: once a session that produced transcript has been torn down, a
\* CallRecord of the session is eventually finalized: fim_chamada is set and
\* a verdict is stored.
C21_TeardownFinalizes ==
  (analysis # "none" /\ \E i \in Segments : saves[i] # "none")
    ~> \E s \in Schedules : \E r \in 1..Len(historico[s]) :
         /\ historico[s][r].fim_chamada = "set"
         /\ historico[s][r].analise_gemini = "set"

\* C20: saveTranscription is atomic per Subject: concurrent calls that find
\* no open CallRecord younger than 5 minutes create exactly one, so there is
\* never more than one open CallRecord younger than 5 minutes.
C20_OneOpenRecord ==
  \A s \in Schedules : Cardinality(ActiveRows(s)) <= 1

\* ================================================================== relay
Running(c) == listeners[c].started - listeners[c].exited

\* client.GeminiClient is set and Close has not been called on it
LinkOpen(c) ==
  /\ GeminiClient[c] # 0
  /\ links[c][GeminiClient[c]].closes = 0

\* ReadResponse on the current link of c can still return a message
LinkDelivers(c) ==
  /\ LinkOpen(c)
  /\ ~links[c][GeminiClient[c]].failed

\* A gemini.Client as the relay sees it.  closes: calls of Close; setup:
\* SendSetup returned nil; failed: the transport to the provider has returned
\* a read error; fed: SendAudio has been called on it.
NewLink(closes, setup) ==
  [closes |-> closes, worker |-> "run", setup |-> setup, failed |-> FALSE,
   fed |-> FALSE]

\* HandleWebSocket / HandlePCMConnection: upgrade, build the client, start
\* handleClientSend (and monitorClientActivity), enter handleClientMessages.
HandleWebSocket(c) ==
  /\ conn[c] = "none"
  /\ conn' = [conn EXCEPT ![c] = "open"]
  /\ UNCHANGED transportCloses
  /\ reader' = [reader EXCEPT ![c] = "run"]
  /\ writer' = [writer EXCEPT ![c] = IF fork = "signaling" THEN "none" ELSE "run"]
  /\ watchdog' = [watchdog EXCEPT ![c] = IF fork = "watchdog" THEN "run" ELSE "none"]
  /\ UNCHANGED << dbVars, workerVars, linkVars, toolCall, fork, sigVars, clients, CPF, cancelled, active,
                  GeminiClient, links, listeners, idle, SendCh, toolResponses >>

\* gemini.Client.Close on the client's current link
Close(c) ==
  IF GeminiClient[c] # 0
  THEN [links EXCEPT ![c][GeminiClient[c]].closes = @ + 1]
  ELSE links

\* cleanupClient, and the deferred function of the pcm handleClientMessages:
\* cancel, delete the registry entry under client.CPF, close the link, close
\* the transport.
cleanupClient(c) ==
  /\ cancelled' = [cancelled EXCEPT ![c] = TRUE]
  /\ clients' = [k \in CPFs |-> IF k = CPF[c] THEN NoClient ELSE clients[k]]
  /\ conn' = [conn EXCEPT ![c] = "closed"]
  /\ transportCloses' = [transportCloses EXCEPT ![c] = @ + 1]
  /\ links' = Close(c)

\* handleClientMessages leaves its loop on "hangup" or on a read error caused
\* by the device (disconnect, read deadline) and runs its cleanup.
Hangup(c) ==
  /\ reader[c] = "run"
  /\ conn[c] = "open"
  /\ reader' = [reader EXCEPT ![c] = "done"]
  /\ cleanupClient(c)
  /\ UNCHANGED << dbVars, workerVars, linkVars, toolCall, fork, sigVars, CPF, active, GeminiClient, writer,
                  watchdog, listeners, idle, SendCh, toolResponses >>

\* ReadMessage fails because the server itself has closed the transport.
ReadError(c) ==
  /\ reader[c] = "run"
  /\ conn[c] = "closed"
  /\ reader' = [reader EXCEPT ![c] = "done"]
  /\ cleanupClient(c)
  /\ UNCHANGED << dbVars, workerVars, linkVars, toolCall, fork, sigVars, CPF, active, GeminiClient, writer,
                  watchdog, listeners, idle, SendCh, toolResponses >>

\* registerClient of main.go and of the watchdog server.
registerClient(c, k) ==
  /\ fork \in {"main", "watchdog"}
  /\ reader[c] = "run"
  /\ conn[c] = "open"
  /\ CPF' = [CPF EXCEPT ![c] = k]
  /\ clients' = [clients EXCEPT ![k] = c]
  /\ idle' = [idle EXCEPT ![c] = FALSE]
  /\ UNCHANGED << dbVars, workerVars, linkVars, toolCall, fork, sigVars, conn, transportCloses, cancelled, active, GeminiClient,
                  links, reader, writer, watchdog, listeners, SendCh, toolResponses >>

\* startGeminiSession, reached by "start_call" on a registered client.
\* gemini.NewClient dials under client.ctx and has succeeded; the result of
\* SendSetup is ignored.
\* raced: the new listenGemini goroutine read client.active before the
\* handler set it and left its loop at once.
\* limit: how many links the client may have opened after the call.
startGeminiSessionWithin(c, limit) ==
  /\ fork \in {"main", "watchdog"}
  /\ reader[c] = "run"
  /\ conn[c] = "open"
  /\ CPF[c] # ""
  /\ ~cancelled[c]
  /\ Len(links[c]) < limit
  /\ \E raced \in BOOLEAN, okSetup \in BOOLEAN :
       /\ links' = [links EXCEPT ![c] = Append(@, NewLink(0, okSetup))]
       /\ GeminiClient' = [GeminiClient EXCEPT ![c] = Len(links[c]) + 1]
       /\ listeners' = [listeners EXCEPT ![c].started = @ + 1,
                                         ![c].exited = IF raced /\ ~active[c]
                                                       THEN @ + 1 ELSE @]
  /\ active' = [active EXCEPT ![c] = TRUE]
  /\ idle' = [idle EXCEPT ![c] = FALSE]
  /\ UNCHANGED << dbVars, workerVars, linkVars, toolCall, fork, sigVars, clients, conn, transportCloses, CPF, cancelled, reader,
                  writer, watchdog, SendCh, toolResponses >>

startGeminiSession(c) == startGeminiSessionWithin(c, MaxLinks)

\* handleRegister, second half: dial the AI provider under client.ctx, send
\* the setup and start the response reader.  dead: client.ctx is already
\* cancelled, so the dial fails.  okNew: gemini.NewClient succeeded; okSetup:
\* SendSetup succeeded (on failure the new link is closed and stays
\* assigned); raced: the response reader started before client.active was
\* set and returned at once.
startGemini(c, dead) ==
  \E okNew \in (IF dead \/ Len(links[c]) >= MaxLinks THEN {FALSE} ELSE BOOLEAN) :
    \E okSetup \in (IF okNew THEN BOOLEAN ELSE {FALSE}) :
      \E raced \in (IF okSetup /\ ~active[c] THEN BOOLEAN ELSE {FALSE}) :
        IF ~okNew
        THEN UNCHANGED << GeminiClient, links, listeners, active >>
        ELSE /\ links' = [links EXCEPT ![c] =
                            Append(@, NewLink(IF okSetup THEN 0 ELSE 1, okSetup))]
             /\ GeminiClient' = [GeminiClient EXCEPT ![c] = Len(links[c]) + 1]
             /\ IF okSetup
                THEN /\ listeners' = [listeners EXCEPT
                                        ![c].started = @ + 1,
                                        ![c].exited = IF raced THEN @ + 1 ELSE @]
                     /\ active' = [active EXCEPT ![c] = TRUE]
                ELSE UNCHANGED << listeners, active >>

\* handleRegister admitting the new client without touching the client the
\* registry held for the Subject.
handleRegisterNoDisplacement(c, k) ==
  /\ fork = "pcm"
  /\ reader[c] = "run"
  /\ conn[c] = "open"
  /\ CPF' = [CPF EXCEPT ![c] = k]
  /\ clients' = [clients EXCEPT ![k] = c]
  /\ startGemini(c, cancelled[c])
  /\ UNCHANGED << dbVars, workerVars, linkVars, toolCall, fork, sigVars, conn, transportCloses, cancelled, reader, writer, watchdog,
                  idle, SendCh, toolResponses >>

\* handleRegister of the pcm server: displace, admit, then open the AI link.
handleRegister(c, k) ==
  /\ fork = "pcm"
  /\ reader[c] = "run"
  /\ conn[c] = "open"
  /\ CPF' = [CPF EXCEPT ![c] = k]
  /\ LET existingClient == clients[k] IN
       /\ cancelled' = IF existingClient # NoClient
                       THEN [cancelled EXCEPT ![existingClient] = TRUE]
                       ELSE cancelled
       /\ conn' = IF existingClient # NoClient
                  THEN [conn EXCEPT ![existingClient] = "closed"]
                  ELSE conn
       /\ transportCloses' = IF existingClient # NoClient
                             THEN [transportCloses EXCEPT ![existingClient] = @ + 1]
                             ELSE transportCloses
  /\ clients' = [clients EXCEPT ![k] = c]
  /\ startGemini(c, cancelled[c] \/ clients[k] = c)
  /\ UNCHANGED << dbVars, workerVars, linkVars, toolCall, fork, sigVars, reader, writer, watchdog, idle, SendCh,
                  toolResponses >>

\* handleClientMessages reads a binary frame: it goes to SendAudio of the
\* client's link when client.active is set and client.GeminiClient is not
\* nil, and is dropped otherwise.
handleAudioFrame(c) ==
  /\ reader[c] = "run"
  /\ conn[c] = "open"
  /\ links' = IF active[c] /\ GeminiClient[c] # 0
              THEN [links EXCEPT ![c][GeminiClient[c]].fed = TRUE]
              ELSE links
  /\ idle' = IF fork \in {"watchdog", "signaling"}
             THEN [idle EXCEPT ![c] = FALSE] ELSE idle
  /\ UNCHANGED << dbVars, workerVars, linkVars, toolCall, fork, sigVars, clients, conn, transportCloses, CPF, cancelled, active,
                  GeminiClient, reader, writer, watchdog, listeners, SendCh,
                  toolResponses >>

\* handleClientSend, case <-client.ctx.Done()
handleClientSendDone(c) ==
  /\ writer[c] = "run"
  /\ cancelled[c]
  /\ writer' = [writer EXCEPT ![c] = "done"]
  /\ UNCHANGED << dbVars, workerVars, linkVars, toolCall, fork, sigVars, clients, conn, transportCloses, CPF, cancelled, active,
                  GeminiClient, links, reader, watchdog, listeners, idle, SendCh,
                  toolResponses >>

\* handleClientSend, case audio := <-client.SendCh: write it to the device;
\* a write error ends the task.
handleClientSend(c) ==
  /\ writer[c] = "run"
  /\ SendCh[c] > 0
  /\ SendCh' = [SendCh EXCEPT ![c] = @ - 1]
  /\ \E ok \in BOOLEAN :
       writer' = [writer EXCEPT ![c] = IF ok /\ conn[c] = "open" THEN "run" ELSE "done"]
  /\ UNCHANGED << dbVars, workerVars, linkVars, toolCall, fork, sigVars, clients, conn, transportCloses, CPF, cancelled, active,
                  GeminiClient, links, reader, watchdog, listeners, idle,
                  toolResponses >>

\* handleClientSend of the pcm server, case <-ticker.C: the ping fails.
handleClientSendPing(c) ==
  /\ fork = "pcm"
  /\ writer[c] = "run"
  /\ writer' = [writer EXCEPT ![c] = "done"]
  /\ UNCHANGED << dbVars, workerVars, linkVars, toolCall, fork, sigVars, clients, conn, transportCloses, CPF, cancelled, active,
                  GeminiClient, links, reader, watchdog, listeners, idle, SendCh,
                  toolResponses >>

\* The response reader receives provider audio and offers it to SendCh:
\* main.go blocks until there is room, the other servers drop on overflow.
processGeminiResponse(c) ==
  /\ Running(c) > 0
  /\ LinkDelivers(c)
  /\ IF SendCh[c] < SendChCap
     THEN SendCh' = [SendCh EXCEPT ![c] = @ + 1]
     ELSE /\ fork # "main"
          /\ UNCHANGED SendCh
  /\ UNCHANGED << dbVars, workerVars, linkVars, toolCall, fork, sigVars, clients, conn, transportCloses, CPF, cancelled, active,
                  GeminiClient, links, reader, writer, watchdog, listeners, idle,
                  toolResponses >>

\* handleGeminiResponse, part with a functionCall: the response reader of c
\* runs the tool.
handleFunctionCall(c) ==
  /\ Running(c) > 0
  /\ LinkDelivers(c)
  /\ executeTool(c)

\* listenGeminiResponses of the pcm server, and audioGeminiToClient of the
\* signaling server, return once the context is done.
listenGeminiResponsesExit(c) ==
  /\ fork \in {"pcm", "signaling"}
  /\ Running(c) > 0
  /\ cancelled[c]
  /\ listeners' = [listeners EXCEPT ![c].exited = @ + 1]
  /\ UNCHANGED << dbVars, workerVars, linkVars, toolCall, fork, sigVars, clients, conn, transportCloses, CPF, cancelled, active,
                  GeminiClient, links, reader, writer, watchdog, idle, SendCh,
                  toolResponses >>

\* The response reader of c gets a transport error from ReadResponse.  The
\* pcm server returns when client.ctx is done and otherwise sleeps 100 ms and
\* reads again; main.go and the watchdog server always read again.
listenGeminiReadError(c) ==
  /\ Running(c) > 0
  /\ GeminiClient[c] # 0
  /\ ~links[c][GeminiClient[c]].failed
  /\ links' = [links EXCEPT ![c][GeminiClient[c]].failed = TRUE]
  /\ listeners' = IF fork = "pcm" /\ cancelled[c]
                  THEN [listeners EXCEPT ![c].exited = @ + 1]
                  ELSE listeners
  /\ UNCHANGED << dbVars, workerVars, linkVars, toolCall, fork, sigVars, clients, conn, transportCloses, CPF, cancelled, active,
                  GeminiClient, reader, writer, watchdog, idle, SendCh,
                  toolResponses >>

\* audioWorker of link l returns on ctx.Done() or on the closed stopChan.
audioWorker(c, l) ==
  /\ l \in 1..Len(links[c])
  /\ links[c][l].worker = "run"
  /\ cancelled[c] \/ links[c][l].closes > 0
  /\ links' = [links EXCEPT ![c][l].worker = "done"]
  /\ UNCHANGED << dbVars, workerVars, linkVars, toolCall, fork, sigVars, clients, conn, transportCloses, CPF, cancelled, active,
                  GeminiClient, reader, writer, watchdog, listeners, idle, SendCh,
                  toolResponses >>

\* Five minutes pass without a frame from the device.
Silence(c) ==
  /\ fork = "watchdog"
  /\ reader[c] = "run"
  /\ conn[c] = "open"
  /\ ~idle[c]
  /\ idle' = [idle EXCEPT ![c] = TRUE]
  /\ UNCHANGED << dbVars, workerVars, linkVars, toolCall, fork, sigVars, clients, conn, transportCloses, CPF, cancelled, active,
                  GeminiClient, links, reader, writer, watchdog, listeners, SendCh,
                  toolResponses >>

\* handleClientMessages reads a frame that changes nothing but lastActivity.
Frame(c) ==
  /\ fork = "watchdog"
  /\ reader[c] = "run"
  /\ conn[c] = "open"
  /\ idle[c]
  /\ idle' = [idle EXCEPT ![c] = FALSE]
  /\ UNCHANGED << dbVars, workerVars, linkVars, toolCall, fork, sigVars, clients, conn, transportCloses, CPF, cancelled, active,
                  GeminiClient, links, reader, writer, watchdog, listeners, SendCh,
                  toolResponses >>

\* monitorClientActivity, case <-ticker.C with more than 5 minutes of silence
monitorClientActivity(c) ==
  /\ watchdog[c] = "run"
  /\ idle[c]
  /\ cancelled' = [cancelled EXCEPT ![c] = TRUE]
  /\ watchdog' = [watchdog EXCEPT ![c] = "done"]
  /\ UNCHANGED << dbVars, workerVars, linkVars, toolCall, fork, sigVars, clients, conn, transportCloses, CPF, active, GeminiClient,
                  links, reader, writer, listeners, idle, SendCh, toolResponses >>

\* monitorClientActivity, case <-client.ctx.Done()
monitorClientActivityDone(c) ==
  /\ watchdog[c] = "run"
  /\ cancelled[c]
  /\ watchdog' = [watchdog EXCEPT ![c] = "done"]
  /\ UNCHANGED << dbVars, workerVars, linkVars, toolCall, fork, sigVars, clients, conn, transportCloses, CPF, cancelled, active,
                  GeminiClient, links, reader, writer, listeners, idle, SendCh,
                  toolResponses >>

NextMain ==
  \E c \in Clients :
    \/ HandleWebSocket(c)
    \/ \E k \in CPFs : registerClient(c, k)
    \/ startGeminiSession(c)
    \/ Hangup(c)
    \/ handleClientSendDone(c)
    \/ handleClientSend(c)
    \/ processGeminiResponse(c)
    \/ \E l \in 1..MaxLinks : audioWorker(c, l)

\* One connection of main.go with all of its tasks, the device's media
\* frames and the provider's read errors.
NextMainSession ==
  \E c \in Solo :
    \/ HandleWebSocket(c)
    \/ \E k \in CPFs : registerClient(c, k)
    \/ startGeminiSession(c)
    \/ Hangup(c)
    \/ handleAudioFrame(c)
    \/ handleClientSendDone(c)
    \/ handleClientSend(c)
    \/ processGeminiResponse(c)
    \/ listenGeminiReadError(c)
    \/ \E l \in 1..MaxLinks : audioWorker(c, l)

\* One connection of main.go on which "start_call" arrives once more than
\* the other specifications let it.
NextMainRestart ==
  \E c \in Solo :
    \/ HandleWebSocket(c)
    \/ \E k \in CPFs : registerClient(c, k)
    \/ startGeminiSessionWithin(c, MaxLinks + 1)
    \/ Hangup(c)
    \/ handleAudioFrame(c)
    \/ handleClientSendDone(c)
    \/ handleClientSend(c)
    \/ processGeminiResponse(c)
    \/ listenGeminiReadError(c)
    \/ \E l \in 1..(MaxLinks + 1) : audioWorker(c, l)

\* The connection handlers of the pcm server, for every client.
NextPCM ==
  \E c \in Clients :
    \/ HandleWebSocket(c)
    \/ \E k \in CPFs : handleRegister(c, k)
    \/ Hangup(c)
    \/ ReadError(c)

\* One connection of the pcm server with all of its tasks.
NextPCMSession ==
  \E c \in Solo :
    \/ HandleWebSocket(c)
    \/ \E k \in CPFs : handleRegister(c, k)
    \/ Hangup(c)
    \/ ReadError(c)
    \/ handleClientSendDone(c)
    \/ handleClientSend(c)
    \/ handleClientSendPing(c)
    \/ processGeminiResponse(c)
    \/ handleFunctionCall(c)
    \/ listenGeminiResponsesExit(c)
    \/ \E l \in 1..MaxLinks : audioWorker(c, l)

\* The same connection with the device's media frames and the provider's
\* read errors.
NextPCMUpstream ==
  \/ NextPCMSession
  \/ \E c \in Solo :
       \/ handleAudioFrame(c)
       \/ listenGeminiReadError(c)

NextWatchdog ==
  \/ NextMain
  \/ \E c \in Clients :
       \/ Silence(c)
       \/ Frame(c)
       \/ monitorClientActivity(c)
       \/ monitorClientActivityDone(c)

\* ------------------------------------------------------ signaling server
\* handleControlMessage, case "register": the Subject is found and the
\* transport is stored under the CPF.
sigRegister(c, k) ==
  /\ fork = "signaling"
  /\ reader[c] = "run"
  /\ conn[c] = "open"
  /\ clients' = [clients EXCEPT ![k] = c]
  /\ UNCHANGED << dbVars, workerVars, linkVars, toolCall, fork, sigVars, conn, transportCloses, CPF, cancelled, active,
                  GeminiClient, links, reader, writer, watchdog, listeners, idle,
                  SendCh, toolResponses >>

\* handleControlMessage, case "start_call", with createSession: the Subject
\* of msg.CPF is found, gemini.NewClient dials (okNew) and SendSetup is sent
\* (okSetup); on success the session is stored, both session goroutines are
\* started and session_created is emitted.  The model follows the first
\* session of a connection.
sigStartCall(c, k) ==
  /\ fork = "signaling"
  /\ reader[c] = "run"
  /\ conn[c] = "open"
  /\ ~active[c]
  /\ ~cancelled[c]
  /\ Len(links[c]) < MaxLinks
  /\ \E okNew \in BOOLEAN :
       \E okSetup \in (IF okNew THEN BOOLEAN ELSE {FALSE}) :
         IF ~okNew
         THEN UNCHANGED << links, GeminiClient, active, CPF, listeners,
                           sessions, currentSession >>
         ELSE IF ~okSetup
         THEN /\ links' = [links EXCEPT ![c] = Append(@, NewLink(1, FALSE))]
              /\ UNCHANGED << GeminiClient, active, CPF, listeners,
                              sessions, currentSession >>
         ELSE /\ links' = [links EXCEPT ![c] = Append(@, NewLink(0, TRUE))]
              /\ GeminiClient' = [GeminiClient EXCEPT ![c] = Len(links[c]) + 1]
              /\ active' = [active EXCEPT ![c] = TRUE]
              /\ CPF' = [CPF EXCEPT ![c] = k]
              /\ listeners' = [listeners EXCEPT ![c].started = @ + 1]
              /\ \E id \in SessionIDs :
                   /\ sessions' = [sessions EXCEPT ![id] = c]
                   /\ currentSession' = [currentSession EXCEPT ![c] = id]
  /\ UNCHANGED << dbVars, workerVars, linkVars, toolCall, fork, teardowns, missed,
                  toDelete, clients, conn, transportCloses, cancelled, reader,
                  writer, watchdog, idle, SendCh, toolResponses >>

\* cleanupSession reading the map with Load and leaving the entry in place.
cleanupSessionLoad(id) ==
  LET session == sessions[id] IN
  IF session = NoClient
  THEN /\ missed' = missed + 1
       /\ UNCHANGED << sessions, cancelled, links, active, teardowns >>
  ELSE /\ cancelled' = [cancelled EXCEPT ![session] = TRUE]
       /\ links' = Close(session)
       /\ active' = [active EXCEPT ![session] = FALSE]
       /\ teardowns' = [teardowns EXCEPT ![session] = @ + 1]
       /\ UNCHANGED << sessions, missed >>

\* cleanupSession: LoadAndDelete the entry of the ID; return when there is
\* none; otherwise cancel the session's context, close its link and start the
\* post-call analysis.
cleanupSession(id) ==
  LET session == sessions[id] IN
  IF session = NoClient
  THEN /\ missed' = missed + 1
       /\ UNCHANGED << sessions, cancelled, links, active, teardowns >>
  ELSE /\ sessions' = [sessions EXCEPT ![id] = NoClient]
       /\ cancelled' = [cancelled EXCEPT ![session] = TRUE]
       /\ links' = Close(session)
       /\ active' = [active EXCEPT ![session] = FALSE]
       /\ teardowns' = [teardowns EXCEPT ![session] = @ + 1]
       /\ UNCHANGED missed

\* handleControlMessage, case "hangup" with a current session; the transport
\* stays open, the read loop goes on and currentSession becomes nil.
sigHangup(c) ==
  /\ fork = "signaling"
  /\ reader[c] = "run"
  /\ conn[c] = "open"
  /\ currentSession[c] # 0
  /\ cleanupSession(currentSession[c])
  /\ currentSession' = [currentSession EXCEPT ![c] = 0]
  /\ UNCHANGED << dbVars, workerVars, linkVars, toolCall, fork, toDelete, clients, conn,
                  transportCloses, CPF, GeminiClient, reader, writer, watchdog,
                  listeners, idle, SendCh, toolResponses >>

\* HandleWebSocket leaves its loop on a read error: cleanupSession when there
\* is a current session, then the deferred conn.Close.
sigDisconnect(c) ==
  /\ fork = "signaling"
  /\ reader[c] = "run"
  /\ conn[c] = "open"
  /\ reader' = [reader EXCEPT ![c] = "done"]
  /\ conn' = [conn EXCEPT ![c] = "closed"]
  /\ transportCloses' = [transportCloses EXCEPT ![c] = @ + 1]
  /\ IF currentSession[c] # 0
     THEN cleanupSession(currentSession[c])
     ELSE UNCHANGED << sessions, cancelled, links, active, teardowns, missed >>
  /\ UNCHANGED << dbVars, workerVars, linkVars, toolCall, fork, currentSession, toDelete,
                  clients, CPF, GeminiClient, writer, watchdog, listeners, idle,
                  SendCh, toolResponses >>

\* Thirty minutes pass without an audio frame on the session of c.
sigInactive(c) ==
  /\ fork = "signaling"
  /\ active[c]
  /\ ~idle[c]
  /\ idle' = [idle EXCEPT ![c] = TRUE]
  /\ UNCHANGED << dbVars, workerVars, linkVars, toolCall, fork, sigVars, clients, conn,
                  transportCloses, CPF, cancelled, active, GeminiClient, links,
                  reader, writer, watchdog, listeners, SendCh, toolResponses >>

\* cleanupDeadSessions, the Range of one tick: collect the IDs of the stored
\* sessions that have been inactive for more than 30 minutes.
cleanupDeadSessions ==
  /\ fork = "signaling"
  /\ toDelete = {}
  /\ toDelete' = { id \in SessionIDs :
                     sessions[id] # NoClient /\ idle[sessions[id]] }
  /\ toDelete' # {}
  /\ UNCHANGED << dbVars, workerVars, linkVars, toolCall, fork, sessions, currentSession,
                  teardowns, missed, clients, conn, transportCloses, CPF,
                  cancelled, active, GeminiClient, links, reader, writer,
                  watchdog, listeners, idle, SendCh, toolResponses >>

\* cleanupDeadSessions, one iteration of the loop over toDelete.
cleanupDeadSession(id) ==
  /\ fork = "signaling"
  /\ id \in toDelete
  /\ toDelete' = toDelete \ {id}
  /\ cleanupSession(id)
  /\ UNCHANGED << dbVars, workerVars, linkVars, toolCall, fork, currentSession, clients,
                  conn, transportCloses, CPF, GeminiClient, reader, writer,
                  watchdog, listeners, idle, SendCh, toolResponses >>

NextSignaling ==
  \E c \in Clients :
    \/ HandleWebSocket(c)
    \/ \E k \in CPFs : sigRegister(c, k)
    \/ \E k \in CPFs : sigStartCall(c, k)
    \/ sigHangup(c)
    \/ sigDisconnect(c)
    \/ handleAudioFrame(c)
    \/ listenGeminiReadError(c)
    \/ listenGeminiResponsesExit(c)
    \/ \E l \in 1..MaxLinks : audioWorker(c, l)

\* The session map of the signaling server: calls are started and ended by
\* the devices while the dead-session sweeper runs.  The Subject of a call
\* plays no part in the map, so every call is for the same one.
NextSessions ==
  \/ \E c \in Clients :
       \/ HandleWebSocket(c)
       \/ sigStartCall(c, "111")
       \/ sigHangup(c)
       \/ sigDisconnect(c)
       \/ sigInactive(c)
  \/ cleanupDeadSessions
  \/ \E id \in SessionIDs : cleanupDeadSession(id)

SpecSessions == InitFork("signaling") /\ [][NextSessions]_vars

SpecSignaling == InitFork("signaling") /\ [][NextSignaling]_vars

SpecMain == InitFork("main") /\ [][NextMain]_vars
SpecMainRestart == InitFork("main") /\ [][NextMainRestart]_vars
SpecMainSession == InitFork("main") /\ [][NextMainSession]_vars
SpecPCM == InitFork("pcm") /\ [][NextPCM]_vars
SpecPCMSession == InitSession /\ [][NextPCMSession]_vars
SpecPCMUpstream == InitFork("pcm") /\ [][NextPCMUpstream]_vars
SpecWatchdog == InitFork("watchdog") /\ [][NextWatchdog]_vars

\* The goroutine scheduler is fair to the steps a task can take on its own:
\* observing a cancelled context or a closed stop channel, and the watchdog's
\* ticker.  Steps that wait for the device or for the AI provider are not.
TaskFairness ==
  \A c \in Clients :
    /\ WF_vars(handleClientSendDone(c))
    /\ WF_vars(\E l \in 1..MaxLinks : audioWorker(c, l))
    /\ WF_vars(monitorClientActivity(c))
    /\ WF_vars(monitorClientActivityDone(c))

FairSpecMain == SpecMain /\ TaskFairness
FairSpecWatchdog == SpecWatchdog /\ TaskFairness

\* The response reader of the pcm server polls client.ctx on every turn of
\* its loop.
FairSpecPCMUpstream ==
  /\ SpecPCMUpstream
  /\ TaskFairness
  /\ \A c \in Solo : WF_vars(listenGeminiResponsesExit(c))

\* --------------------------------------------------- properties: sessions
\* A live session: token not cancelled, device transport open, present in
\* the registry under its Subject.
Live(c) ==
  /\ ~cancelled[c]
  /\ conn[c] = "open"
  /\ CPF[c] # ""
  /\ clients[CPF[c]] = c

\* C1: at every instant each Subject has at most one live session, and a
\* register that takes over the registry entry of a Subject from another
\* session cancels that session and closes its transport.
C1_OneLiveSession ==
  /\ [](\A d \in CPFs : Cardinality({ c \in Clients : CPF[c] = d /\ Live(c) }) <= 1)
  /\ [][\A d \in CPFs, prior \in Clients, c \in Clients :
          (prior # c /\ clients[d] = prior /\ clients'[d] = c)
            => (cancelled'[prior] /\ conn'[prior] = "closed")]_vars

\* C25: the transport of a device is closed at most once, and a session
\* that has ended has had it closed exactly once, also when the session was
\* displaced by a register before it ran its own teardown.
C25_TransportClosedOnce ==
  \A c \in Clients :
    /\ transportCloses[c] <= 1
    /\ reader[c] = "done" => transportCloses[c] = 1

\* C33: a session that is registered and has not been torn down keeps its
\* registry entry when any other session runs its teardown, a displaced
\* predecessor for the same Subject included.
C33_RegistryEntryKept ==
  [][\A c \in Clients, d \in Clients :
       (/\ c # d
        /\ Live(c)
        /\ reader[c] = "run"
        /\ reader[d] = "run" /\ reader'[d] = "done")
         => clients'[CPF[c]] = c]_vars

\* C34: once the teardown of a session has completed, no registry entry maps
\* to that session, also when it registered under more than one Subject key.
C34_NoEntryAfterTeardown ==
  \A c \in Clients :
    reader[c] = "done" => \A k \in CPFs : clients[k] # c

\* C35: Close is executed at most once on every AI link, also when the setup
\* send of a register fails and the session is torn down afterwards.
C35_LinkClosedOnce ==
  \A c \in Clients :
    \A l \in 1..Len(links[c]) : links[c][l].closes <= 1

\* C36: a session owns at most one open AI link and at most one running
\* response reader at any time, and every AI link it opened has been closed
\* when its teardown has ended, also when start_call is received twice.
C36_OneLinkOneReader ==
  \A c \in Clients :
    /\ Cardinality({ l \in 1..Len(links[c]) : links[c][l].closes = 0 }) <= 1
    /\ Running(c) <= 1
    /\ reader[c] = "done" => \A l \in 1..Len(links[c]) : links[c][l].closes > 0

\* C2: when register for Subject d runs on the transport of s2 while another
\* session s1 is registered for d, the state in which s2 is admitted already
\* has s1's token cancelled and s1's transport closed, and the registry holds
\* s2 under d.
C2_DisplacedBeforeAdmitted ==
  [][\A d \in CPFs :
       LET s1 == clients[d]
           s2 == clients'[d]
       IN (s1 # NoClient /\ s2 # NoClient /\ s1 # s2 /\ handleRegister(s2, d))
            => /\ cancelled'[s1]
               /\ conn'[s1] = "closed"
               /\ CPF'[s2] = d]_vars

\* s1 has been displaced by s2 and has not yet run its own teardown.
C2_Witness ==
  \E d \in CPFs, s1 \in Clients, s2 \in Clients :
    /\ s1 # s2
    /\ CPF[s1] = d /\ CPF[s2] = d
    /\ clients[d] = s2
    /\ cancelled[s1] /\ conn[s1] = "closed" /\ reader[s1] = "run"
    /\ ~cancelled[s2] /\ conn[s2] = "open"

\* The step leaves session c active, with its response reader, token and
\* links as they were, and sends nothing to the AI provider.
SessionUntouched(c) ==
  /\ active'[c]
  /\ listeners'[c] = listeners[c]
  /\ cancelled'[c] = cancelled[c]
  /\ links'[c] = links[c]
  /\ toolResponses' = toolResponses

\* C6: a tool call that fails (store error, no active caregiver, every push
\* failing) changes nothing of the session: it stays active, its response
\* reader keeps running, its token stays as it was, and nothing is sent to
\* the AI provider in answer.  Stated as: a step that touches the session is
\* never the step of a failing tool call.
C6_ToolFailureSwallowed ==
  [][\A c \in Clients :
       ~ SessionUntouched(c) => ~ (toolCall'.err /\ handleFunctionCall(c))]_vars

\* An alert_family call has failed and the session that ran it is still
\* active with its response reader running on an open link.
C6_Witness ==
  /\ toolCall.name = "alert_family"
  /\ toolCall.err
  /\ \E c \in Clients : active[c] /\ ~cancelled[c] /\ Running(c) > 0 /\ LinkOpen(c)

\* Session c is torn down: token cancelled, device transport closed, AI link
\* closed, no registry entry under its Subject.
Terminated(c) ==
  /\ cancelled[c]
  /\ conn[c] = "closed"
  /\ ~LinkOpen(c)
  /\ CPF[c] # "" => clients[CPF[c]] # c

\* C9: a session whose device has been silent for 5 minutes is eventually
\* terminated (token cancelled, device transport and AI link closed, registry
\* entry removed), unless the device speaks again first.
C9_IdleTerminated ==
  \A c \in Clients :
    (idle[c] /\ conn[c] = "open") ~> (~idle[c] \/ Terminated(c))

AnyTaskDone(c) ==
  \/ reader[c] = "done"
  \/ writer[c] = "done"
  \/ watchdog[c] = "done"
  \/ listeners[c].exited > 0
  \/ \E l \in 1..Len(links[c]) : links[c][l].worker = "done"

AllTasksDone(c) ==
  /\ reader[c] = "done"
  /\ writer[c] = "done"
  /\ watchdog[c] # "run"
  /\ Running(c) = 0
  /\ \A l \in 1..Len(links[c]) : links[c][l].worker = "done"

\* C10: once any task of a session has terminated, the session's token is
\* cancelled, and every other task of the session eventually exits.
C10_TaskExitStopsSession ==
  \A c \in Clients :
    /\ [](AnyTaskDone(c) => cancelled[c])
    /\ AnyTaskDone(c) ~> AllTasksDone(c)

\* The provider connection of session c has failed under its response reader.
LinkFailed(c) ==
  /\ GeminiClient[c] # 0
  /\ links[c][GeminiClient[c]].failed

\* C11: when an upstream response read returns a transport error, the session
\* ends: its token is cancelled (teardown is reached), its response reader
\* stops, and the step opens no new upstream connection for the session.
C11_LinkFailureEndsSession ==
  /\ \A c \in Clients : LinkFailed(c) ~> (cancelled[c] /\ Running(c) = 0)
  /\ [][\A c \in Clients :
          listenGeminiReadError(c) => Len(links'[c]) = Len(links[c])]_vars

\* The connection of c has registered: client.CPF is set (main.go, pcm and
\* watchdog servers), the registry holds the transport (signaling server).
Registered(c) ==
  IF fork = "signaling"
  THEN \E k \in CPFs : clients[k] = c
  ELSE CPF[c] # ""

\* C13: start_call opens an AI link and marks the session active only on a
\* session that has registered before; on an unregistered session no link is
\* opened and the session stays inactive.
C13_StartCallNeedsRegister ==
  [][\A c \in Clients :
       (Len(links'[c]) > Len(links[c]) \/ (active'[c] /\ ~active[c]))
         => Registered(c)]_vars

\* C15: the response reader never blocks on the egress path: whenever a
\* provider response with audio can be read, handling it can complete, and on
\* a full egress channel the chunk is dropped; this also when the downstream
\* writer has exited.
C15_EgressNeverBlocks ==
  /\ [](\A c \in Clients :
          (Running(c) > 0 /\ LinkDelivers(c)) => ENABLED processGeminiResponse(c))
  /\ [][\A c \in Clients :
          (processGeminiResponse(c) /\ SendCh[c] = SendChCap)
            => SendCh'[c] = SendCh[c]]_vars

\* Session c is active in the sense of the relay contract: the upstream
\* setup of its current link succeeded and the session is not torn down.
SessionActive(c) ==
  /\ active[c]
  /\ ~cancelled[c]
  /\ GeminiClient[c] # 0
  /\ links[c][GeminiClient[c]].setup
  /\ links[c][GeminiClient[c]].closes = 0

\* The step hands a device frame to a link of c.
FrameHandedOver(c) ==
  \E l \in 1..Len(links[c]) : ~links[c][l].fed /\ links'[c][l].fed

\* C12: a media frame of the device reaches the AI link only when the
\* session is active at that moment (upstream setup succeeded, session not
\* torn down); a frame read in any other state changes nothing.
C12_FramesOnlyWhenActive ==
  [][\A c \in Clients :
       /\ FrameHandedOver(c) => SessionActive(c)
       /\ (handleAudioFrame(c) /\ ~SessionActive(c))
            => UNCHANGED << links, active, cancelled, GeminiClient >>]_vars

\* ================================================================ AI link
\* the constants of the upstream buffer
minChunkSize == 1600
minSendInterval == 100
processingTimeout == 5000

\* sizes of the chunks a device sends: a 20 ms frame and a 100 ms frame
ChunkSizes == {320, 1600}

\* The instants at which the link is observed, as ms since c.lastSendTime:
\* one value on each side of every comparison the code makes.
Instants == << 0, minSendInterval, processingTimeout, processingTimeout + 1 >>

LaterInstant(t) ==
  IF t = Instants[1] THEN Instants[2]
  ELSE IF t = Instants[2] THEN Instants[3]
  ELSE Instants[4]

\* The fields flushBuffer works on, and the count of send goroutines started.
LinkState ==
  [audioBuffer |-> audioBuffer, isProcessing |-> isProcessing,
   timeSinceLastSend |-> timeSinceLastSend, queued |-> sends.fresh,
   forced |-> FALSE]

\* flushBuffer without the test of the in-flight flag.
flushBufferUnguarded(st) ==
  IF st.audioBuffer = 0
  THEN st
  ELSE [st EXCEPT !.audioBuffer = 0, !.isProcessing = TRUE,
                  !.timeSinceLastSend = 0, !.queued = @ + 1]

\* flushBuffer: nothing on an empty buffer or while a send is in flight;
\* otherwise set the flag, swap the buffer out, stamp lastSendTime and start
\* a sendAudioInternal goroutine.
flushBuffer(st) ==
  IF st.audioBuffer = 0
  THEN st
  ELSE IF st.isProcessing
       THEN st
       ELSE [st EXCEPT !.audioBuffer = 0, !.isProcessing = TRUE,
                       !.timeSinceLastSend = 0, !.queued = @ + 1]

\* bufferAudio flushing only above minChunkSize.
bufferAudioAbove(st, n) ==
  LET appended == [st EXCEPT !.audioBuffer = @ + n]
  IN IF appended.audioBuffer > minChunkSize THEN flushBuffer(appended) ELSE appended

\* bufferAudio: append the chunk, flush once the buffer holds minChunkSize.
bufferAudio(st, n) ==
  LET appended == [st EXCEPT !.audioBuffer = @ + n]
  IN IF appended.audioBuffer >= minChunkSize THEN flushBuffer(appended) ELSE appended

\* flushBufferIfReady that logs the forced flush and leaves the flag set.
flushBufferIfReadyKeepsFlag(st) ==
  IF st.audioBuffer = 0
  THEN st
  ELSE IF st.timeSinceLastSend < minSendInterval
       THEN st
       ELSE LET processingTooLong ==
                  st.isProcessing /\ st.timeSinceLastSend > processingTimeout
            IN flushBuffer(IF processingTooLong
                           THEN [st EXCEPT !.forced = TRUE]
                           ELSE st)

\* flushBufferIfReady: the 100 ms tick of audioWorker.
flushBufferIfReady(st) ==
  IF st.audioBuffer = 0
  THEN st
  ELSE IF st.timeSinceLastSend < minSendInterval
       THEN st
       ELSE LET processingTooLong ==
                  st.isProcessing /\ st.timeSinceLastSend > processingTimeout
            IN flushBuffer(IF processingTooLong
                           THEN [st EXCEPT !.isProcessing = FALSE, !.forced = TRUE]
                           ELSE st)

\* Store the result of a buffer operation; at most MaxOutstanding sends are
\* followed at a time.
Assign(st) ==
  /\ st.queued + sends.stale + sends.written <= MaxOutstanding
  /\ audioBuffer' = st.audioBuffer
  /\ isProcessing' = st.isProcessing
  /\ timeSinceLastSend' = st.timeSinceLastSend
  /\ sends' = [sends EXCEPT !.fresh = st.queued, !.forced = st.forced]
  /\ sendOrder' = IF st.queued > sends.fresh
                  THEN [sendOrder EXCEPT !.pending = Append(@, FALSE)]
                  ELSE sendOrder

\* SendAudio waiting for room in audioChan instead of dropping.
SendAudioBlocking(n) ==
  /\ Len(audioChan) < AudioChanCap
  /\ audioChan' = Append(audioChan, n)
  /\ lastOffer' = "queued"
  /\ UNCHANGED << dbVars, workerVars, toolCall, relayVars, audioBuffer, timeSinceLastSend,
                  isProcessing, stopChan, geminiConn, sends, sendOrder, linkWorker, pace >>

\* SendAudio: offer the chunk to audioChan; when the channel is full, log a
\* warning and drop the chunk.  Returns nil either way.
SendAudio(n) ==
  /\ IF Len(audioChan) < AudioChanCap
     THEN /\ audioChan' = Append(audioChan, n)
          /\ lastOffer' = "queued"
     ELSE /\ audioChan' = audioChan
          /\ lastOffer' = "dropped"
  /\ UNCHANGED << dbVars, workerVars, toolCall, relayVars, audioBuffer, timeSinceLastSend,
                  isProcessing, stopChan, geminiConn, sends, sendOrder, linkWorker, pace >>

\* audioWorker, case audioChunk := <-c.audioChan
audioWorkerChunk ==
  /\ linkWorker = "run"
  /\ audioChan # << >>
  /\ audioBuffer + Head(audioChan) <= MaxBuffered
  /\ Assign(bufferAudio(LinkState, Head(audioChan)))
  /\ audioChan' = Tail(audioChan)
  /\ UNCHANGED << dbVars, workerVars, toolCall, relayVars, lastOffer, pace, stopChan, geminiConn, linkWorker >>

\* audioWorker, case <-ticker.C
audioWorkerTick ==
  /\ linkWorker = "run"
  /\ Assign(flushBufferIfReady(LinkState))
  /\ UNCHANGED << dbVars, workerVars, toolCall, relayVars, lastOffer, pace, audioChan, stopChan, geminiConn,
                  linkWorker >>

\* audioWorker, case <-c.stopChan
audioWorkerStop ==
  /\ linkWorker = "run"
  /\ stopChan = "closed"
  /\ linkWorker' = "done"
  /\ UNCHANGED << dbVars, workerVars, toolCall, relayVars, lastOffer, pace, audioBuffer, timeSinceLastSend,
                  isProcessing, audioChan, stopChan, geminiConn, sends, sendOrder >>

\* conn.WriteJSON succeeds: the network lets it (ok) and the transport has
\* not been closed.
WriteOk(ok) == ok /\ geminiConn = "open"

\* The places in sendOrder.pending of the goroutines of a kind: those started
\* before the last ReadResponse returned come first.
Goroutines(kind) ==
  IF kind = "stale" THEN 1..sends.stale
  ELSE (sends.stale + 1)..Len(sendOrder.pending)

\* seq without its i-th element
Without(seq, i) == SubSeq(seq, 1, i - 1) \o SubSeq(seq, i + 1, Len(seq))

\* The first n goroutines of seq have been overtaken by a write.
Overtake(seq, n) == [j \in 1..Len(seq) |-> IF j <= n THEN TRUE ELSE seq[j]]

\* sendAudioInternal: one started goroutine writes its chunk; on a write
\* error it clears the in-flight flag.  kind: whether a response has been
\* read since the goroutine was started.
sendAudioInternal(kind, ok) ==
  /\ sends[kind] > 0
  /\ IF WriteOk(ok)
     THEN /\ sends' = [sends EXCEPT ![kind] = @ - 1,
                                    !.written = IF kind = "fresh" THEN @ + 1 ELSE @]
          /\ UNCHANGED isProcessing
     ELSE /\ sends' = [sends EXCEPT ![kind] = @ - 1]
          /\ isProcessing' = FALSE
  /\ \E i \in Goroutines(kind) :
       sendOrder' = IF WriteOk(ok)
                    THEN [pending |-> Overtake(Without(sendOrder.pending, i), i - 1),
                          late |-> sendOrder.late \/ sendOrder.pending[i]]
                    ELSE [sendOrder EXCEPT !.pending = Without(@, i)]
  /\ UNCHANGED << dbVars, workerVars, toolCall, relayVars, lastOffer, pace, audioBuffer, timeSinceLastSend,
                  audioChan, stopChan, geminiConn, linkWorker >>

\* What a returning ReadJSON makes of the sends: those on the wire are
\* answered or lost, those not yet written are no longer awaited.
Answered ==
  [sends EXCEPT !.fresh = 0, !.stale = sends.stale + sends.fresh, !.written = 0]

\* ReadResponse: ReadJSON returns a message or an error; either way the
\* in-flight flag is cleared.
ReadResponse ==
  /\ isProcessing' = FALSE
  /\ sends' = Answered
  /\ UNCHANGED << sendOrder, dbVars, workerVars, toolCall, relayVars, lastOffer, pace, audioBuffer, timeSinceLastSend,
                  audioChan, stopChan, geminiConn, linkWorker >>

\* Time passes on the link.
LinkTimePasses ==
  /\ timeSinceLastSend # Instants[4]
  /\ timeSinceLastSend' = LaterInstant(timeSinceLastSend)
  /\ UNCHANGED << dbVars, workerVars, toolCall, relayVars, lastOffer, pace, audioBuffer, isProcessing, audioChan,
                  stopChan, geminiConn, sends, sendOrder, linkWorker >>

\* Close: close stopChan, flush what is buffered, close the transport.
LinkClose ==
  /\ stopChan = "open"
  /\ stopChan' = "closed"
  /\ Assign(flushBuffer(LinkState))
  /\ geminiConn' = "closed"
  /\ UNCHANGED << dbVars, workerVars, toolCall, relayVars, lastOffer, pace, audioChan, linkWorker >>

NextLink ==
  \/ \E n \in ChunkSizes : SendAudio(n)
  \/ audioWorkerChunk
  \/ audioWorkerTick
  \/ audioWorkerStop
  \/ \E kind \in {"fresh", "stale"}, ok \in BOOLEAN : sendAudioInternal(kind, ok)
  \/ ReadResponse
  \/ LinkTimePasses
  \/ LinkClose

SpecLink == InitFork("pcm") /\ [][NextLink]_vars

\* ------------------------------------------------------- a paced upload
\* One link fed by a device that sends a 320-byte chunk every 20 ms, with
\* time followed in steps of PaceStep ms.  The chunk goes through audioChan
\* to bufferAudio at once; the ticker fires every 100 ms; the provider
\* answers whenever it likes.
maxBufferSize == 16000
PaceStep == 10
PacedChunkSize == 320
PacedChunkPeriod == 20
TickPeriod == 100

\* time.Since(c.lastSendTime) is followed up to here
PaceHorizon == processingTimeout + 2 * PaceStep

Min(a, b) == IF a < b THEN a ELSE b

\* The device starts streaming, at any moment of the link's first 100 ms.
PacedStart ==
  /\ pace.chunk = -1
  /\ pace.flushes = 0
  /\ timeSinceLastSend < TickPeriod
  /\ pace' = [pace EXCEPT !.chunk = 0]
  /\ UNCHANGED << dbVars, workerVars, toolCall, relayVars, audioBuffer, timeSinceLastSend,
                  isProcessing, audioChan, stopChan, geminiConn, sends, sendOrder, linkWorker,
                  lastOffer >>

\* audioWorker, case audioChunk := <-c.audioChan, at the device's pace
PacedChunk ==
  /\ pace.chunk = 0
  /\ LET st == bufferAudio(LinkState, PacedChunkSize) IN
       /\ audioBuffer' = st.audioBuffer
       /\ isProcessing' = st.isProcessing
       /\ timeSinceLastSend' = st.timeSinceLastSend
       /\ LET flushed == st.queued > sends.fresh IN
            pace' = [pace EXCEPT
                       !.chunk = PacedChunkPeriod,
                       !.flushes = IF flushed THEN Min(@ + 1, 2) ELSE @,
                       !.gap = IF flushed /\ pace.flushes >= 1
                               THEN Min(timeSinceLastSend, minSendInterval)
                               ELSE @]
  /\ UNCHANGED << dbVars, workerVars, toolCall, relayVars, audioChan, stopChan, geminiConn, sends, sendOrder,
                  linkWorker, lastOffer >>

\* audioWorker, case <-ticker.C, every 100 ms
PacedTick ==
  /\ pace.tick = 0
  /\ LET st == flushBufferIfReady(LinkState) IN
       /\ audioBuffer' = st.audioBuffer
       /\ isProcessing' = st.isProcessing
       /\ timeSinceLastSend' = st.timeSinceLastSend
       /\ LET flushed == st.queued > sends.fresh IN
            pace' = [pace EXCEPT
                       !.tick = TickPeriod,
                       !.flushes = IF flushed THEN Min(@ + 1, 2) ELSE @,
                       !.gap = IF flushed /\ pace.flushes >= 1
                               THEN Min(timeSinceLastSend, minSendInterval)
                               ELSE @]
  /\ UNCHANGED << dbVars, workerVars, toolCall, relayVars, audioChan, stopChan, geminiConn, sends, sendOrder,
                  linkWorker, lastOffer >>

\* ReadResponse returns and clears the in-flight flag.
PacedResponse ==
  /\ isProcessing
  /\ isProcessing' = FALSE
  /\ UNCHANGED << dbVars, workerVars, toolCall, relayVars, audioBuffer, timeSinceLastSend,
                  audioChan, stopChan, geminiConn, sends, sendOrder, linkWorker, lastOffer, pace >>

\* PaceStep ms pass; nothing is due.
PacedTimePasses ==
  /\ pace.tick > 0
  /\ pace.chunk # 0
  /\ pace' = [pace EXCEPT !.tick = @ - PaceStep,
                          !.chunk = IF @ = -1 THEN -1 ELSE @ - PaceStep]
  /\ timeSinceLastSend' = Min(timeSinceLastSend + PaceStep, PaceHorizon)
  /\ UNCHANGED << dbVars, workerVars, toolCall, relayVars, audioBuffer, isProcessing, audioChan,
                  stopChan, geminiConn, sends, sendOrder, linkWorker, lastOffer >>

NextPaced ==
  \/ PacedStart
  \/ PacedChunk
  \/ PacedTick
  \/ PacedResponse
  \/ PacedTimePasses

SpecPaced == InitFork("pcm") /\ [][NextPaced]_vars

\* ------------------------------------------------- properties: the AI link
\* Sends dispatched that have not failed and after whose dispatch no
\* upstream response has been read.
Outstanding == sends.fresh + sends.written

\* The step is a sendAudioInternal whose write fails.
SendFailed ==
  \E kind \in {"fresh", "stale"}, ok \in BOOLEAN :
    ~WriteOk(ok) /\ sendAudioInternal(kind, ok)

\* C5 as stated: at most one upstream send is outstanding, and the in-flight
\* flag is cleared by each upstream response and by each transport error.
C5_OneOutstanding ==
  /\ [](Outstanding <= 1)
  /\ [][/\ ReadResponse => ~isProcessing'
        /\ SendFailed => ~isProcessing']_vars

\* C5 amended: a send is dispatched only when the in-flight flag is clear or
\* has been held for longer than the stuck-flight timeout, each dispatch sets
\* the flag, and the flag is cleared by each upstream response, by each read
\* error and by each write error of a send.
C5_FlagDiscipline ==
  [][/\ sends'.fresh > sends.fresh
          => /\ ~isProcessing \/ timeSinceLastSend > processingTimeout
             /\ isProcessing'
     /\ ReadResponse => ~isProcessing'
     /\ SendFailed => ~isProcessing']_vars

\* A stall override has dispatched a second send while the first is still
\* on the wire unanswered.
C5_Witness ==
  /\ sends.written >= 1
  /\ sends.fresh >= 1
  /\ isProcessing
  /\ geminiConn = "open"

\* Every field of gemini.Client the model follows; a drop counter would be
\* one of them.
ClientFields ==
  << audioBuffer, timeSinceLastSend, isProcessing, audioChan, stopChan,
     geminiConn, sends, linkWorker >>

C16_FlushesSpaced == pace.gap = -1 \/ pace.gap >= minSendInterval

\* C17: the unsent upload buffer, and so every flush, holds at most
\* maxBufferSize (16,000) bytes, also while a send is in flight or the
\* provider is stalled.
C17_BufferBounded == audioBuffer <= maxBufferSize

C26_FlushAtThreshold ==
  [][(/\ audioWorkerChunk
      /\ audioBuffer + Head(audioChan) >= minChunkSize
      /\ ~isProcessing)
       => /\ audioBuffer' = 0
          /\ isProcessing'
          /\ timeSinceLastSend' = 0
          /\ sends'.fresh = sends.fresh + 1]_vars

\* A flush has just emptied the buffer while the queue of chunks is empty
\* and the earlier send has been answered.
C26_Witness ==
  /\ audioBuffer = 0
  /\ isProcessing
  /\ timeSinceLastSend = 0
  /\ sends.fresh = 1
  /\ sends.stale > 0
  /\ ~sends.forced
  /\ audioChan = << >>


\* C39: two sessions that are live at the same time never share a session
\* ID, and creating a session never overwrites the entry of another live
\* session in the session map.
C39_UniqueSessionIDs ==
  /\ [](\A c \in Clients, d \in Clients :
          (c # d /\ active[c] /\ active[d])
            => currentSession[c] # currentSession[d])
  /\ [][\A id \in SessionIDs :
          (sessions[id] # NoClient /\ active[sessions[id]])
            => sessions'[id] \in {sessions[id], NoClient}]_vars

\* C40: the teardown of a session (cancel, close of the AI link, start of the
\* post-call analysis) is performed at most once, however hangup, connection
\* close and the dead-session sweeper interleave.
C40_TeardownOnce ==
  \A c \in Clients : teardowns[c] <= 1

\* A session has been torn down and a later cleanupSession for its ID, by
\* the sweeper or by the close of its connection, found nothing to do.
C40_Witness ==
  \E c \in Clients :
    /\ teardowns[c] = 1
    /\ currentSession[c] # 0
    /\ reader[c] = "done"
    /\ sessions[currentSession[c]] = NoClient
    /\ toDelete = {}
    /\ missed > 0
    /\ \A d \in Clients : d # c => conn[d] = "none"

\* C37: the buffers flushed from accepted audio reach the upstream transport
\* in the order in which they were flushed, which is the order in which
\* their bytes were accepted: no buffer is written after a later one, also
\* when a second flush is dispatched before an earlier send has written.
C37_WrittenInOrder == ~sendOrder.late

\* -------------------------------------------------------- worker manager
\* WorkerManager.Start takes wm.mu and enters its loop over wm.workers.
Start ==
  /\ startPc = "none"
  /\ startPc' = "loop"
  /\ UNCHANGED << dbVars, toolCall, relayVars, linkVars,
                  wmStopChan, wg, workerPc, stopPc >>

\* One iteration of the loop of Start: wg.Add(1) and go wm.runWorker(worker),
\* in the order of wm.workers.
StartWorker(w) ==
  /\ startPc = "loop"
  /\ workerPc[w] = "none"
  /\ \A v \in Workers : v < w => workerPc[v] # "none"
  /\ wg' = wg + 1
  /\ workerPc' = [workerPc EXCEPT ![w] = "first"]
  /\ UNCHANGED << dbVars, toolCall, relayVars, linkVars,
                  wmStopChan, startPc, stopPc >>

\* Start returns once every worker has been launched.
StartDone ==
  /\ startPc = "loop"
  /\ \A w \in Workers : workerPc[w] # "none"
  /\ startPc' = "done"
  /\ UNCHANGED << dbVars, toolCall, relayVars, linkVars,
                  wmStopChan, wg, workerPc, stopPc >>

\* runWorker, line 70: the immediate first execution; executeWorker calls
\* w.Run without looking at stopChan.
runWorkerFirst(w) ==
  /\ workerPc[w] = "first"
  /\ workerPc' = [workerPc EXCEPT ![w] = "run"]
  /\ UNCHANGED << dbVars, toolCall, relayVars, linkVars,
                  wmStopChan, wg, startPc, stopPc >>

\* executeWorker: w.Run returns (with or without an error).
executeWorkerDone(w) ==
  /\ workerPc[w] = "run"
  /\ workerPc' = [workerPc EXCEPT ![w] = "select"]
  /\ UNCHANGED << dbVars, toolCall, relayVars, linkVars,
                  wmStopChan, wg, startPc, stopPc >>

\* runWorker, case <-ticker.C: the next execution.  select may take this case
\* also when stopChan is closed, if the ticker has fired too.
runWorkerTick(w) ==
  /\ workerPc[w] = "select"
  /\ workerPc' = [workerPc EXCEPT ![w] = "run"]
  /\ UNCHANGED << dbVars, toolCall, relayVars, linkVars,
                  wmStopChan, wg, startPc, stopPc >>

\* runWorker, case <-wm.stopChan: return, and the deferred wg.Done.
runWorkerStop(w) ==
  /\ workerPc[w] = "select"
  /\ wmStopChan = "closed"
  /\ workerPc' = [workerPc EXCEPT ![w] = "exited"]
  /\ wg' = wg - 1
  /\ UNCHANGED << dbVars, toolCall, relayVars, linkVars,
                  wmStopChan, startPc, stopPc >>

\* WorkerManager.Stop, line 104: close(wm.stopChan).  Stop does not take
\* wm.mu, so it can run before, during or after Start.
Stop ==
  /\ stopPc = "none"
  /\ wmStopChan' = "closed"
  /\ stopPc' = "wait"
  /\ UNCHANGED << dbVars, toolCall, relayVars, linkVars,
                  wg, workerPc, startPc >>

\* WorkerManager.Stop, line 105: wg.Wait returns when the counter is zero.
StopReturns ==
  /\ stopPc = "wait"
  /\ wg = 0
  /\ stopPc' = "returned"
  /\ UNCHANGED << dbVars, toolCall, relayVars, linkVars,
                  wmStopChan, wg, workerPc, startPc >>

NextWorkers ==
  \/ Start
  \/ \E w \in Workers : StartWorker(w)
  \/ StartDone
  \/ \E w \in Workers : runWorkerFirst(w)
  \/ \E w \in Workers : executeWorkerDone(w)
  \/ \E w \in Workers : runWorkerTick(w)
  \/ \E w \in Workers : runWorkerStop(w)
  \/ Stop
  \/ StopReturns

SpecWorkers == Init /\ [][NextWorkers]_vars

\* C32: Stop returns only after every worker loop that was started has
\* exited, and no worker Run starts after Stop has returned.
C32_GracefulStop ==
  /\ [][(stopPc # "returned" /\ stopPc' = "returned")
          => \A w \in Workers : workerPc[w] \in {"none", "exited"}]_vars
  /\ [][stopPc = "returned"
          => \A w \in Workers : workerPc'[w] = "run" => workerPc[w] = "run"]_vars
====
